---- MODULE Spec2Model ----
(***************************************************************************)
(* Model of the request-execution engine of docai:                         *)
(*   - run_request, the retry/fallback executor    (src/docai/llm/base.py) *)
(*   - chat / run_chat, the streaming dispatcher   (src/docai/llm/base.py) *)
(*   - setup_llm, the two semaphores          (src/docai/config/loader.py) *)
(*                                                                         *)
(* Spec     : sequential runs of run_request on one client registry.       *)
(* SpecChat : concurrent chat() generators sharing the two semaphores.     *)
(***************************************************************************)
EXTENDS Integers, Sequences, FiniteSets, TLC

(***************************************************************************)
(* Bounds of the model.                                                    *)
(***************************************************************************)
MaxFallbacks == 2
MaxAttempts == 2
MaxRuns == 2
NChats == 2
MaxRequests == 2
MaxUnits == 3
MaxConcurrency == 2

\* calls of DiskCache.set by the processes that share a key
MaxSets == 3

(***************************************************************************)
(* Values.                                                                 *)
(***************************************************************************)
Providers == {"google", "azure"}

\* status codes a generate call may fail with (llm_datatypes.py:92-110)
CallCodes == {404, 429, 503}

\* status codes LLMClient.__init__ may fail with (llm_client.py:120,141-153)
ConstructCodes == {401, 601}

Messages == {"m1", "m2"}

NoError == [kind |-> "None", code |-> 0, seq |-> 0]

LLMError(c, n) == [kind |-> "LLMError", code |-> c, seq |-> n]

\* a failure that is not an LLMError (llm_client.py:130 raises ValueError)
OtherError(n) == [kind |-> "ValueError", code |-> 0, seq |-> n]

\* LLMClient.__init__ returned a client
Constructed(n) == [kind |-> "ok", code |-> 0, seq |-> n]

NoResult == [kind |-> "None"]

\* LLMResponse / ChatResponse-like result of a successful generate call
Response(m) == [kind |-> "Response", response |-> m]

Raised(e) == [kind |-> "Raised", error |-> e]

(***************************************************************************)
(* _status_code_matches: re.fullmatch(pattern.replace("x", "\d"),          *)
(* str(status_code)).  A pattern is a sequence of characters; the          *)
(* characters the patterns of the repository use are decimal digits, "x"   *)
(* (replaced by \d) and "." (the regular expression's any-character).      *)
(***************************************************************************)
DigitChar(d) == CASE d = 0 -> "0" [] d = 1 -> "1" [] d = 2 -> "2" [] d = 3 -> "3"
                  [] d = 4 -> "4" [] d = 5 -> "5" [] d = 6 -> "6" [] d = 7 -> "7"
                  [] d = 8 -> "8" [] d = 9 -> "9"

RECURSIVE Str(_)
\* str(status_code) of a non-negative integer, as a sequence of characters
Str(n) == IF n < 10 THEN <<DigitChar(n)>> ELSE Append(Str(n \div 10), DigitChar(n % 10))

\* one character of the pattern against one character of the text
CharMatches(p, ch) == IF p = "x" THEN ch \in {DigitChar(d) : d \in 0..9}
                      ELSE IF p = "." THEN TRUE
                      ELSE p = ch

\* variant: the pattern is matched against the start of the text
FullMatch_Prefix(pattern, text) ==
    /\ Len(pattern) <= Len(text)
    /\ \A i \in 1..Len(pattern) : CharMatches(pattern[i], text[i])

\* re.fullmatch (base.py:25): the whole text, character by character
FullMatch(pattern, text) ==
    /\ Len(pattern) = Len(text)
    /\ \A i \in 1..Len(pattern) : CharMatches(pattern[i], text[i])

_status_code_matches(patterns, status_code) ==
    \E i \in 1..Len(patterns) : FullMatch(patterns[i], Str(status_code))

\* RetryPolicy.retry_on default (llm_datatypes.py:59-61)
DefaultRetryOn == << <<"5", ".", ".">>, <<"4", "0", "8">>, <<"4", "2", "9">> >>

(***************************************************************************)
(* Plans: [primary] + fallbacks as one sequence of targets, and the retry  *)
(* policy.  A target is identified by its provider; the position in the    *)
(* sequence is what run_request iterates over.                             *)
(***************************************************************************)
Plans ==
    [targets : UNION { [1..n -> Providers] : n \in 1..(MaxFallbacks + 1) },
     max_attempts : 0..MaxAttempts,
     retry_on : { DefaultRetryOn, << <<"5", "x", "x">> >>, << <<"4", "x", "x">> >>, << >> }]

TargetIdx == 1..(MaxFallbacks + 1)

VARIABLES
    plan,        \* the LLMExecutionPlan of the current run_request
    clients,     \* the registry: providers that have a client
    pc,          \* position of run_request
    ti,          \* index of the target of the outer for loop
    att,         \* iteration of the inner for loop (1-based)
    last_error,  \* local last_error
    result,      \* what run_request returned or raised
    run,         \* number of the current run_request call on the registry
    nCalls,      \* history: generate calls made per target index
    nSleeps,     \* history: backoff sleeps per target index
    nEvents,     \* history: provider events (constructions and calls) so far
    lastObserved,\* history: the failure observed last in time
    okCall,      \* history: the successful call, if any
    nonRetry,    \* history: targets that failed with a non-retryable code
    allRetryable,\* history: every call so far failed with a matching code
    obtained     \* history, per target: whether its client was obtained

execVars == <<plan, clients, pc, ti, att, last_error, result, run, nCalls, nSleeps,
              nEvents, lastObserved, okCall, nonRetry, allRetryable, obtained>>

VARIABLES
    max_concurrency, \* llm_args["globals"]["max_concurrency"]
    semaphore,       \* free permits of llm_args["semaphore"]
    inflight_sem,    \* free permits of llm_args["inflight_semaphore"]
    taken,           \* per chat(): requests taken from chat_requests so far
    gpc,             \* per chat(): position of the generator
    pending,         \* per chat(): the local set pending
    done,            \* per chat(): the local set done, minus what was yielded
    task,            \* per unit: state of the task running run_chat
    yielded,         \* history, per unit: times its result was yielded
    released         \* history, per unit: times _release_inflight ran for it

chatVars == <<max_concurrency, semaphore, inflight_sem, taken, gpc, pending,
              done, task, yielded, released>>

VARIABLES
    cache_kind,      \* LLMService.cache: "none", "memory" or "disk"
    _store,          \* InMemoryCache._store, per key
    files,           \* the files of the DiskCache directory, per key
    call,            \* per caller: its call of get_or_run
    got,             \* what the last direct DiskCache.get / set gave
    planA, planB,    \* the two plans given to build_cache_key
    keyA, keyB       \* their fingerprints

cacheVars == <<cache_kind, _store, files, call, got, planA, planB, keyA, keyB>>

VARIABLES
    llm_config,      \* LLMService.llm_config: the three registries
    prompted,        \* what the last call of prompt() was given and built
    target_model_config, \* the mapping a caller passes to call_llm (base.py:51)
    sent             \* what the last call_llm passed to the backend, and its end

facadeVars == <<llm_config, prompted, target_model_config, sent>>

VARIABLES
    matched,         \* the last call of _status_code_matches and its result
    loaded,          \* the last call of load_config: the files read and its end
    configured,      \* which of the two semaphores config.llm_args holds
    disk,            \* the directory entries of one key (path and path.tmp) and the files
    writer,          \* per process: its call of DiskCache.set on that key
    read             \* what the last DiskCache.get of that key read

miscVars == <<matched, loaded, configured, disk, writer, read>>

vars == <<execVars, chatVars, cacheVars, facadeVars, miscVars>>

\* no call of _status_code_matches was made
NoMatch == [pattern |-> << >>, status_code |-> 0, out |-> FALSE, called |-> FALSE]

\* the processes that share a cache directory
Writers == {"w1", "w2"}

\* the keys under which setup_llm stores the two semaphores
\* (loader.py:136-137)
SemaphoreKeys == {"semaphore", "inflight_semaphore"}

\* no call of _status_code_matches or load_config was made, and
\* config.llm_args is as setup_llm leaves it
IdleMisc ==
    /\ configured = SemaphoreKeys
    /\ disk = [path |-> 0, tmp |-> 0, data |-> [i \in 1..MaxSets |-> << >>], sets |-> 0]
    /\ writer = [w \in Writers |-> [pc |-> "idle", ino |-> 0, pos |-> 0, msg |-> "none"]]
    /\ read = [called |-> FALSE, out |-> "None"]
    /\ matched = NoMatch
    /\ loaded = [kind |-> "none", calls |-> << >>, log_file |-> {}, llm_file |-> {},
                 logger_args |-> {}, llm_args |-> {}]

NTargets == Len(plan.targets)

Done == {"returned", "raised"}

NoOk == [resp |-> NoResult, total |-> 0]

RECURSIVE SumTo(_, _)
SumTo(f, n) == IF n = 0 THEN 0 ELSE f[n] + SumTo(f, n - 1)

TotalCalls == SumTo(nCalls, MaxFallbacks + 1)

\* the plan slot while no run_request is active
NoPlan == [targets |-> <<"google">>, max_attempts |-> 0, retry_on |-> << >>]

\* no run_request is active: no plan, no locals, no history
NoRun ==
    /\ plan = NoPlan
    /\ pc = "idle"
    /\ ti = 1
    /\ att = 0
    /\ last_error = NoError
    /\ result = NoResult
    /\ nCalls = [t \in TargetIdx |-> 0]
    /\ nSleeps = [t \in TargetIdx |-> 0]
    /\ lastObserved = NoError
    /\ okCall = NoOk
    /\ nonRetry = [t \in TargetIdx |-> FALSE]
    /\ allRetryable = TRUE
    /\ obtained = [t \in TargetIdx |-> "unvisited"]
    /\ nEvents = 0

\* an empty registry and no run_request started
InitRun ==
    /\ NoRun
    /\ clients = {}
    /\ run = 0

(***************************************************************************)
(* The dispatcher.  A unit is the task created for one request; it is      *)
(* named by the chat() invocation and the position of its request.         *)
(***************************************************************************)
Chats == 1..NChats

Units == Chats \X (1..MaxRequests)

UnitsOf(g) == {u \in Units : u[1] = g}

\* states of a task: not created; created and not yet inside the gated
\* section; inside the section; the same two with a cancellation requested;
\* finished by the exception run_chat raises; finished by cancellation
Finished == {"failed", "cancelled"}

\* positions of a chat() that is over: its input was exhausted and every
\* result yielded, or it was closed by the finally block
ChatOver == {"exhausted", "closed"}

\* inflight_requests of setup_llm (loader.py:135)
InflightLimit(mc) == mc * 2

\* setup_llm (loader.py:132-137) and no chat() started
InitChat ==
    /\ max_concurrency \in 1..MaxConcurrency
    /\ semaphore = max_concurrency
    /\ inflight_sem = InflightLimit(max_concurrency)
    /\ taken = [g \in Chats |-> 0]
    /\ gpc = [g \in Chats |-> "next"]
    /\ pending = [g \in Chats |-> {}]
    /\ done = [g \in Chats |-> {}]
    /\ task = [u \in Units |-> "none"]
    /\ yielded = [u \in Units |-> 0]
    /\ released = [u \in Units |-> 0]

\* the dispatcher when only run_request is exercised
IdleChat ==
    /\ max_concurrency = 1
    /\ semaphore = 1
    /\ inflight_sem = InflightLimit(1)
    /\ taken = [g \in Chats |-> 0]
    /\ gpc = [g \in Chats |-> "next"]
    /\ pending = [g \in Chats |-> {}]
    /\ done = [g \in Chats |-> {}]
    /\ task = [u \in Units |-> "none"]
    /\ yielded = [u \in Units |-> 0]
    /\ released = [u \in Units |-> 0]

(***************************************************************************)
(* The cache (src/docai/llm/service.py).  Python values that a message     *)
(* may hold in LLMFunctionRequest.args and LLMFunctionResponse.result      *)
(* (typed dict[str, Any] | None and Any), and what json.dump / json.load   *)
(* make of them.                                                           *)
(***************************************************************************)
\* a Python value of type t ("none", "str", "list", "tuple", "set", "dict",
\* or "dict_of_bytes", a dict that holds a bytes value) with its items; the
\* items of a dict are its values in key order
Py(t, xs) == [py |-> t, items |-> xs]

\* an optional value that is None
None == "None"

JsonNull == [js |-> "null", items |-> << >>]

\* json.dump raises TypeError for a value that is not JSON serializable
\* (service.py:77 passes no default)
JsonSerializable(v) == v.py \in {"none", "str", "list", "tuple", "dict"}

\* json.dump of a serializable value: lists and tuples both become arrays
JsonDump(v) ==
    CASE v.py = "none" -> JsonNull
      [] v.py = "str" -> [js |-> "string", items |-> v.items]
      [] v.py \in {"list", "tuple"} -> [js |-> "array", items |-> v.items]
      [] v.py = "dict" -> [js |-> "object", items |-> v.items]

\* json.load of a JSON value: an array becomes a list
JsonLoad(j) ==
    CASE j.js = "null" -> Py("none", << >>)
      [] j.js = "string" -> [py |-> "str", items |-> j.items]
      [] j.js = "array" -> [py |-> "list", items |-> j.items]
      [] j.js = "object" -> [py |-> "dict", items |-> j.items]

(***************************************************************************)
(* Messages (llm_datatypes.py:26-30): role, content, original_content.     *)
(* The content is text, an LLMFunctionRequest or an LLMFunctionResponse.   *)
(***************************************************************************)
\* LLMRole values (llm_datatypes.py:6-11)
LLMRoles == {"system", "user", "assistant", "function_request", "function_response"}

Text(s) == [kind |-> "text", name |-> "", value |-> Py("str", <<s>>)]

LLMFunctionRequest(n, a) == [kind |-> "function_request", name |-> n, value |-> a]

LLMFunctionResponse(n, r) == [kind |-> "function_response", name |-> n, value |-> r]

LLMMessage(r, c, o) == [role |-> r, content |-> c, original_content |-> o]

\* the member original_content_repr is absent from the payload
NoRepr == "absent"

\* service.py:276-298, _message_to_payload: the members role (role.value),
\* content_type, content, and original_content_repr when original_content
\* is not None; repr(original_content) shows the contents of the passthrough
_message_to_payload(m) ==
    [role |-> m.role,
     content_type |-> m.content.kind,
     content |-> m.content,
     original_content_repr |->
        IF m.original_content # None THEN m.original_content ELSE NoRepr]

\* service.py:310-313, _serialize_message: the payload with
\* original_content_repr popped
_serialize_message(m) == [_message_to_payload(m) EXCEPT !.original_content_repr = NoRepr]

(***************************************************************************)
(* The files of a DiskCache directory.  A file is missing, unreadable, not *)
(* UTF-8, not JSON, or holds a JSON document; the "content" member of a    *)
(* document is a plain JSON value or an object that may have the members   *)
(* name, args and result.                                                  *)
(***************************************************************************)
JsonPlain(j) == [shape |-> "value", value |-> j, has_name |-> FALSE, name |-> "",
                 args |-> JsonNull, result |-> JsonNull]

JsonNamed(hn, n, a, r) == [shape |-> "object", value |-> JsonNull, has_name |-> hn,
                           name |-> n, args |-> a, result |-> r]

JsonDoc(top, hr, r, ht, t, hc, c) ==
    [top |-> top, has_role |-> hr, role |-> r, has_content_type |-> ht,
     content_type |-> t, has_content |-> hc, content |-> c]

NoDoc == JsonDoc("none", FALSE, "", FALSE, "", FALSE, JsonPlain(JsonNull))

File(st, doc) == [state |-> st, doc |-> doc]

\* service.py:77, json.dump(payload, handle, ensure_ascii=True,
\* sort_keys=True) of a payload whose content is JSON serializable
JsonDumpPayload(payload) ==
    JsonDoc("object", TRUE, payload.role, TRUE, payload.content_type, TRUE,
        CASE payload.content_type = "function_request" ->
                 JsonNamed(TRUE, payload.content.name, JsonDump(payload.content.value), JsonNull)
          [] payload.content_type = "function_response" ->
                 JsonNamed(TRUE, payload.content.name, JsonNull, JsonDump(payload.content.value))
          [] OTHER -> JsonPlain(JsonDump(payload.content.value)))

\* files that were not written by DiskCache.set
ForeignFiles ==
    {File("unreadable", NoDoc), File("not_utf8", NoDoc), File("not_json", NoDoc)}
        \cup {File("json", d) : d \in
    { JsonDoc("array", FALSE, "", FALSE, "", FALSE, JsonPlain(JsonNull)),
      JsonDoc("object", FALSE, "", TRUE, "text", TRUE, JsonPlain(JsonDump(Py("str", <<"hi">>)))),
      JsonDoc("object", TRUE, "bogus", TRUE, "text", TRUE, JsonPlain(JsonDump(Py("str", <<"hi">>)))),
      JsonDoc("object", TRUE, "user", FALSE, "", TRUE, JsonPlain(JsonDump(Py("str", <<"hi">>)))),
      JsonDoc("object", TRUE, "user", TRUE, "text", FALSE, JsonPlain(JsonNull)),
      JsonDoc("object", TRUE, "user", TRUE, "function_request", TRUE, JsonPlain(JsonDump(Py("str", <<"hi">>)))),
      JsonDoc("object", TRUE, "user", TRUE, "function_response", TRUE,
              JsonNamed(FALSE, "", JsonNull, JsonNull)),
      JsonDoc("object", TRUE, "user", TRUE, "text", TRUE,
              JsonNamed(TRUE, "f", JsonNull, JsonNull)),
      JsonDoc("object", TRUE, "user", TRUE, "bogus", TRUE, JsonPlain(JsonNull)) }}

\* outcomes of a cache operation: None, a message, or an exception
NoMessage == LLMMessage("", Text(""), None)

ReturnsNone == [kind |-> "none", msg |-> NoMessage, exc |-> ""]

Returns(m) == [kind |-> "message", msg |-> m, exc |-> ""]

Raises(e) == [kind |-> "raise", msg |-> NoMessage, exc |-> e]

\* service.py:316-334, _deserialize_message(payload) on what json.load gave
_deserialize_message(d) ==
    IF d.top # "object" THEN Raises("TypeError")
    ELSE IF ~d.has_role THEN Raises("KeyError")
    ELSE IF d.role \notin LLMRoles THEN Raises("ValueError")
    ELSE IF ~d.has_content_type \/ ~d.has_content THEN Raises("KeyError")
    ELSE IF d.content_type \in {"function_request", "function_response"}
    THEN IF d.content.shape # "object" THEN Raises("TypeError")
         ELSE IF ~d.content.has_name THEN Raises("KeyError")
         ELSE IF d.content_type = "function_request"
         THEN Returns(LLMMessage(d.role,
                  LLMFunctionRequest(d.content.name, JsonLoad(d.content.args)), None))
         ELSE Returns(LLMMessage(d.role,
                  LLMFunctionResponse(d.content.name, JsonLoad(d.content.result)), None))
    ELSE Returns(LLMMessage(d.role,
             [kind |-> "text", name |-> "",
              value |-> IF d.content.shape = "value" THEN JsonLoad(d.content.value)
                        ELSE Py("dict", <<d.content.name>>)],
             None))

\* service.py:55-69, DiskCache.get(key) on the file of the key.  Reading a
\* file that is not UTF-8 raises UnicodeDecodeError, a ValueError that is
\* neither an OSError nor a JSONDecodeError, the two that service.py:62
\* catches
DiskCache_get(f) ==
    IF f.state = "missing" THEN ReturnsNone
    ELSE IF f.state # "json"
    THEN IF f.state \in {"unreadable", "not_json"} THEN ReturnsNone ELSE Raises("UnicodeDecodeError")
    ELSE LET r == _deserialize_message(f.doc)
         IN  IF r.kind = "raise" /\ r.exc \in {"KeyError", "ValueError", "TypeError"}
             THEN ReturnsNone
             ELSE r

\* outcomes of the operating system for a write: the write succeeds, or
\* open / write / os.replace raises OSError
WriteOutcomes == {"ok", "OSError"}

\* service.py:71-80, DiskCache.set(key, message): the file of the key after
\* the call
DiskCache_set_file(f, m, w) ==
    IF JsonSerializable(_serialize_message(m).content.value) /\ w = "ok"
    THEN File("json", JsonDumpPayload(_serialize_message(m)))
    ELSE f

\* service.py:71-80, DiskCache.set(key, message): what the call returns or
\* raises.  An OSError is logged and swallowed; the TypeError of json.dump
\* is not an OSError and leaves set
DiskCache_set(f, m, w) ==
    IF w = "OSError" THEN ReturnsNone
    ELSE IF ~JsonSerializable(_serialize_message(m).content.value) THEN Raises("TypeError")
    ELSE ReturnsNone

(***************************************************************************)
(* Plans as LLMService sees them (llm_datatypes.py:33-70) and              *)
(* build_cache_key (service.py:163-176).                                   *)
(***************************************************************************)
\* agent_functions: None or a list of tool names
NoTools == [some |-> FALSE, list |-> << >>]

Tools(l) == [some |-> TRUE, list |-> l]

\* the order of str values that sorted() uses, on the tool names of the model
ToolRank(t) == IF t = "a" THEN 1 ELSE 2

\* service.py:269, sorted(request.agent_functions)
SortedTools(l) == SortSeq(l, LAMBDA x, y : ToolRank(x) < ToolRank(y))

\* json.dumps(..., default=str) of a value: what json cannot serialize is
\* replaced by its str()
JsonDumpDefaultStr(v) ==
    IF JsonSerializable(v) THEN JsonDump(v)
    ELSE [js |-> "string", items |-> <<v.py>> \o v.items]

\* the rendering of a message payload inside the blob
MessageBlob(payload) ==
    [role |-> payload.role,
     content_type |-> payload.content_type,
     content |-> [name |-> payload.content.name,
                  value |-> JsonDumpDefaultStr(payload.content.value)],
     original_content_repr |-> payload.original_content_repr]

\* variant: the request id is a member of the payload
_request_to_payload_WithId(p) ==
    [request_id |-> p.request_id,
     system_prompt |-> p.system_prompt,
     structured_output |-> p.structured_output,
     agent_functions |-> p.agent_functions,
     contents |-> [i \in 1..Len(p.contents) |-> MessageBlob(_message_to_payload(p.contents[i]))]]

\* service.py:265-273, _request_to_payload: the request id is not a member
_request_to_payload(p) ==
    [system_prompt |-> p.system_prompt,
     structured_output |-> p.structured_output,
     agent_functions |->
        IF p.agent_functions.some /\ p.agent_functions.list # << >>
        THEN Tools(SortedTools(p.agent_functions.list))
        ELSE NoTools,
     contents |-> [i \in 1..Len(p.contents) |-> MessageBlob(_message_to_payload(p.contents[i]))]]

\* service.py:301-307, _target_to_payload
_target_to_payload(t) ==
    [provider |-> t.provider, model |-> t.model,
     model_config |-> t.model_config, provider_config |-> t.provider_config]

\* service.py:24
CACHE_VERSION == 1

\* variant: the fallbacks are hashed as a set
FallbacksPayload_Unordered(fs) == {_target_to_payload(fs[i]) : i \in 1..Len(fs)}

\* service.py:168, the fallbacks in their order
FallbacksPayload(fs) == [i \in 1..Len(fs) |-> _target_to_payload(fs[i])]

\* hashlib.sha256(blob).hexdigest(): a digest tagged with its algorithm; two
\* blobs have the same digest only when they are the same blob
Sha256(blob) == <<"sha256", blob>>

\* service.py:163-176, build_cache_key: the payload, rendered by
\* json.dumps(sort_keys=True, default=str) as a record of its members, and
\* digested
build_cache_key(p) ==
    Sha256([version |-> CACHE_VERSION,
            request |-> _request_to_payload(p),
            primary |-> _target_to_payload(p.primary),
            fallbacks |-> FallbacksPayload(p.fallbacks),
            retry |-> [max_attempts |-> p.max_attempts,
                       retry_on |-> p.retry_on,
                       backoff_sec |-> p.backoff_sec]])

\* two LLMTarget (llm_datatypes.py:48-53)
T1 == [provider |-> "google", model |-> "m1", model_config |-> None, provider_config |-> None]

T2 == [T1 EXCEPT !.model = "m2"]

NoKey == <<"none", [version |-> 0]>>

\* a plan of the service, LLMExecutionPlan with its LLMRequest and
\* RetryPolicy flattened (llm_datatypes.py:33-70): the plan the others are
\* variants of
BasePlan ==
    [request_id |-> "r1", contents |-> <<LLMMessage("user", Text("hi"), None)>>,
     system_prompt |-> None, structured_output |-> None, agent_functions |-> NoTools,
     primary |-> T1, fallbacks |-> << >>, max_attempts |-> 1,
     retry_on |-> DefaultRetryOn, backoff_sec |-> 2]

\* the messages given to build_cache_key and to DiskCache.set: a text, a
\* function request with its args (llm_datatypes.py:15-17) or a function
\* response with its result (llm_datatypes.py:21-23), without or with an
\* original_content
KeyMessages ==
    {LLMMessage(r, c, o) :
        r \in {"user", "assistant"},
        c \in {Text("hi")}
              \cup {LLMFunctionRequest("f", Py(t, <<"v">>)) : t \in {"dict", "dict_of_bytes"}}
              \cup {LLMFunctionResponse("f", Py(t, <<"v">>)) : t \in {"str", "list", "tuple", "set"}}
              \cup {LLMFunctionRequest("f", Py("none", << >>)),
                    LLMFunctionResponse("f", Py("none", << >>))},
        o \in {None, "o1", "o2"}}

\* the plans given to build_cache_key: BasePlan changed in at most one field
KeyPlans ==
    {[BasePlan EXCEPT !.request_id = v] : v \in {"r1", "r2"}}
    \cup {[BasePlan EXCEPT !.contents = <<m>>] : m \in KeyMessages}
    \cup {[BasePlan EXCEPT !.contents = <<BasePlan.contents[1], BasePlan.contents[1]>>]}
    \cup {[BasePlan EXCEPT !.system_prompt = "be brief"]}
    \cup {[BasePlan EXCEPT !.structured_output = "schema"]}
    \cup {[BasePlan EXCEPT !.agent_functions = Tools(l)] :
             l \in {<< >>, <<"a">>, <<"a", "b">>, <<"b", "a">>, <<"a", "a">>}}
    \cup {[BasePlan EXCEPT !.primary = T2]}
    \cup {[BasePlan EXCEPT !.fallbacks = fs] : fs \in UNION {[1..n -> {T1, T2}] : n \in 0..MaxFallbacks}}
    \cup {[BasePlan EXCEPT !.max_attempts = 2]}
    \cup {[BasePlan EXCEPT !.retry_on = << >>]}
    \cup {[BasePlan EXCEPT !.backoff_sec = 1]}

\* the plans given to get_or_run: two that differ in the request id only,
\* and one with another primary target
ServicePlans ==
    {BasePlan, [BasePlan EXCEPT !.request_id = "r2"], [BasePlan EXCEPT !.primary = T2]}

ServiceKeys == {build_cache_key(p) : p \in ServicePlans}

\* what a call of get_or_run, or of the runner, ends with: an LLMResponse
\* (llm_datatypes.py:42-45) with or without a message, or an exception
NoOutcome == [kind |-> "none", request_id |-> "", has_message |-> FALSE,
              msg |-> NoMessage, exc |-> ""]

LLMResponse(id, m) == [kind |-> "response", request_id |-> id, has_message |-> TRUE,
                       msg |-> m, exc |-> ""]

EmptyResponse(id) == [kind |-> "response", request_id |-> id, has_message |-> FALSE,
                      msg |-> NoMessage, exc |-> ""]

Raise(e) == [kind |-> "raise", request_id |-> "", has_message |-> FALSE,
             msg |-> NoMessage, exc |-> e]

\* the concurrent callers of get_or_run
Callers == {"c1", "c2"}

NoCall == [pc |-> "idle", plan |-> BasePlan, use_cache |-> FALSE, hit |-> FALSE,
           ran |-> 0, runner |-> NoOutcome, result |-> NoOutcome]

NoGot == [op |-> "none", key |-> NoKey, msg |-> NoMessage, w |-> "none", out |-> ReturnsNone]

\* no plan was given to build_cache_key
NoKeyed ==
    /\ planA = BasePlan
    /\ planB = BasePlan
    /\ keyA = NoKey
    /\ keyB = NoKey

\* an empty cache and no call of get_or_run
NoCalls ==
    /\ _store = [k \in ServiceKeys |-> [present |-> FALSE, msg |-> NoMessage]]
    /\ files = [k \in ServiceKeys |-> File("missing", NoDoc)]
    /\ call = [c \in Callers |-> NoCall]
    /\ got = NoGot

\* the service when only run_request or the dispatcher is exercised
IdleCache ==
    /\ cache_kind = "none"
    /\ NoCalls
    /\ NoKeyed

(***************************************************************************)
(* LLMService.prompt and _resolve_target (service.py:93-145, 198-246).     *)
(* A dict is the set of its <<key, value>> items, one per key.  A missing  *)
(* mapping and an empty one are the same value: the code tests mappings    *)
(* for truth ("if model_config_override", "model_config or None").         *)
(***************************************************************************)

\* llm_config: the profile, model and provider registries.  Profile "fast"
\* names a provider the provider registry does not hold, "orphan" a model
\* the model registry does not hold, and the model of "nodef" has no
\* default provider; model "lite" has no model_name and no generation
\* defaults.
LLMConfig ==
    [profiles |->
        [default |-> [model |-> "gem", provider |-> None, tools |-> Tools(<<"a">>)],
         lite    |-> [model |-> "lite", provider |-> "google", tools |-> NoTools],
         fast    |-> [model |-> "gem", provider |-> "azure", tools |-> NoTools],
         orphan  |-> [model |-> "lost", provider |-> None, tools |-> NoTools],
         nodef   |-> [model |-> "bare", provider |-> None, tools |-> NoTools]],
     models |->
        [gem  |-> [default_provider |-> "google", model_name |-> "gemini-pro",
                   generation |-> {<<"temperature", "0.2">>, <<"top_p", "0.9">>}],
         lite |-> [default_provider |-> "google", model_name |-> None, generation |-> {}],
         bare |-> [default_provider |-> None, model_name |-> None, generation |-> {}]],
     providers |->
        [google |-> {<<"api_key_env", "GEMINI_API_KEY">>, <<"region", "eu">>}]]

\* variant: on a shared key the value of d is kept
Update_KeepOld(d, o) == d \cup {kv \in o : \A x \in d : x[1] # kv[1]}

\* d.update(o): the items of o, and the items of d under the other keys
Update(d, o) == {kv \in d : \A x \in o : x[1] # kv[1]} \cup o

\* variant: the update is made on the registry's own mapping
Copied_Alias(held, updated) == updated

\* service.py:226-227, dict(...): the update is made on a copy, so the
\* mapping the registry holds is afterwards what it held
Copied(held, updated) == held

\* service.py:198-246, _resolve_target on the configuration cfg: the target
\* and the allowed tools, or the LLMServiceError, and the configuration as
\* the call leaves it
_resolve_target(cfg, profile_name, model_config_override, provider_config_override) ==
    LET raise == [kind |-> "raise", exc |-> "LLMServiceError", tools |-> NoTools, cfg |-> cfg,
                  target |-> [provider |-> None, model |-> None,
                              model_config |-> {}, provider_config |-> {}]]
    IN
    IF profile_name \notin DOMAIN cfg.profiles THEN raise
    ELSE LET profile == cfg.profiles[profile_name]
             model_key == profile.model
         IN
         IF model_key = None \/ model_key \notin DOMAIN cfg.models THEN raise
         ELSE LET model == cfg.models[model_key]
                  provider == IF profile.provider # None THEN profile.provider
                              ELSE model.default_provider
                  known == provider \in DOMAIN cfg.providers
                  model_config == Update(model.generation, model_config_override)
                  provider_config ==
                      Update(IF known THEN cfg.providers[provider] ELSE {},
                             provider_config_override)
              IN
              IF provider = None THEN raise
              ELSE [kind |-> "ok", exc |-> None, tools |-> profile.tools,
                    target |-> [provider |-> provider,
                                model |-> IF model.model_name = None THEN model_key
                                          ELSE model.model_name,
                                model_config |-> model_config,
                                provider_config |-> provider_config],
                    cfg |-> [cfg EXCEPT
                        !.models[model_key].generation = Copied(@, model_config),
                        !.providers = IF known
                                      THEN [@ EXCEPT ![provider] = Copied(@, provider_config)]
                                      ELSE @]]

\* variant: the fallback targets are collected last first
ResolveFallbacks_Reversed(cfg, names, mco, pco) ==
    LET r(i) == _resolve_target(cfg, names[i], mco, pco) IN
    [kind |-> IF \E i \in 1..Len(names) : r(i).kind = "raise" THEN "raise" ELSE "ok",
     exc |-> IF \E i \in 1..Len(names) : r(i).kind = "raise" THEN "LLMServiceError" ELSE None,
     targets |-> [i \in 1..Len(names) |-> r(Len(names) + 1 - i).target],
     cfg |-> cfg]

RECURSIVE ResolveFallbacks(_, _, _, _)
\* service.py:130-136, the loop over fallback_profiles: the targets in the
\* order of the names, or the first LLMServiceError
ResolveFallbacks(cfg, names, mco, pco) ==
    IF names = << >> THEN [kind |-> "ok", exc |-> None, targets |-> << >>, cfg |-> cfg]
    ELSE LET r == _resolve_target(cfg, Head(names), mco, pco) IN
         IF r.kind = "raise"
         THEN [kind |-> "raise", exc |-> r.exc, targets |-> << >>, cfg |-> r.cfg]
         ELSE LET rest == ResolveFallbacks(r.cfg, Tail(names), mco, pco)
              IN  [rest EXCEPT !.targets = <<r.target>> \o @]

\* the service as constructed, no call of prompt() yet, and the mapping of
\* a target of the configuration in the hands of the caller of call_llm
IdleFacade ==
    /\ llm_config = LLMConfig
    /\ prompted = [kind |-> "none", exc |-> None, prompt |-> "", profile |-> "default",
                   fallback_profiles |-> << >>, model_config |-> {}, provider_config |-> {},
                   plan |-> BasePlan, overridden |-> FALSE]
    /\ target_model_config = LLMConfig.models.gem.generation
    /\ sent = [config |-> {}, system_prompt |-> None, called |-> FALSE,
               backend |-> [kind |-> "none", code |-> 0],
               out |-> [kind |-> "none", status_code |-> 0], after_system |-> FALSE]

\* variant: the loop makes one iteration too many
MoreAttempts_OffByOne(a) == a <= plan.max_attempts

\* base.py:46, the inner loop has an iteration left after iteration a
MoreAttempts(a) == a < plan.max_attempts

\* variant: every failure is retried
ShouldRetry_Always(c) == TRUE

\* variant: no failure is retried
ShouldRetry_Never(c) == FALSE

\* base.py:56, the failure is retried on the same target
ShouldRetry(c) == _status_code_matches(plan.retry_on, c)

\* variant: only the first error is kept
Remember_First(old, e) == IF old = NoError THEN e ELSE old

\* base.py:43 and 54, "last_error = e"
Remember(old, e) == e

\* variant: the loop goes on after a success
AfterSuccess_Continue == "sleep"

\* base.py:48, "return await ...": where run_request is after a success
AfterSuccess == "returned"

\* base.py:63-66, reached when the outer loop has run out of targets
Finish(le) ==
    /\ pc' = "raised"
    /\ result' = IF le # NoError THEN Raised(le) ELSE Raised(LLMError(604, 0))

\* end of the inner loop for target t: next iteration of the outer loop
Advance(t, le) ==
    IF t < NTargets
    THEN /\ pc' = "target"
         /\ ti' = t + 1
         /\ att' = 0
         /\ result' = result
    ELSE /\ Finish(le)
         /\ UNCHANGED <<ti, att>>

\* base.py:46, entering "for _ in range(max_attempts)" for target t
EnterAttempts(t, le) ==
    IF MoreAttempts(0)
    THEN /\ pc' = "attempt"
         /\ att' = 1
         /\ UNCHANGED <<ti, result>>
    ELSE Advance(t, le)

\* variant: every provider identifier is given the google client
ConstructOutcomes_AnyProvider(provider, n) ==
    {Constructed(n), OtherError(n)} \cup {LLMError(c, n) : c \in ConstructCodes}

\* outcomes of LLMClient(provider, provider_config), llm_client.py:109-153
ConstructOutcomes(provider, n) ==
    IF provider = "google"
    THEN {Constructed(n), OtherError(n)} \cup {LLMError(c, n) : c \in ConstructCodes}
    ELSE {LLMError(600, n)}

\* variant: a client is constructed for every target, registered or not
NeedsClient_Always(cl, provider) == TRUE

\* base.py:38, "if provider not in clients"
NeedsClient(cl, provider) == provider \notin cl

\* base.py:35-44: the client is in the registry
ReuseClient ==
    /\ UNCHANGED <<chatVars, cacheVars, facadeVars, miscVars>>
    /\ pc = "target"
    /\ ~NeedsClient(clients, plan.targets[ti])
    /\ obtained' = [obtained EXCEPT ![ti] = "obtained"]
    /\ EnterAttempts(ti, last_error)
    /\ UNCHANGED <<plan, clients, last_error, run, nCalls, nSleeps, nEvents,
                   lastObserved, okCall, nonRetry, allRetryable>>

\* base.py:35-44: the client is constructed
ConstructClient ==
    /\ UNCHANGED <<chatVars, cacheVars, facadeVars, miscVars>>
    /\ pc = "target"
    /\ NeedsClient(clients, plan.targets[ti])
    /\ nEvents' = nEvents + 1
    /\ \E o \in ConstructOutcomes(plan.targets[ti], nEvents + 1) :
         IF o.kind = "ok"
         THEN /\ clients' = clients \cup {plan.targets[ti]}
              /\ obtained' = [obtained EXCEPT ![ti] = "obtained"]
              /\ EnterAttempts(ti, last_error)
              /\ UNCHANGED <<last_error, lastObserved>>
         ELSE IF o.kind = "LLMError"
         THEN /\ last_error' = Remember(last_error, o)
              /\ lastObserved' = o
              /\ Advance(ti, Remember(last_error, o))
              /\ obtained' = [obtained EXCEPT ![ti] = "failed"]
              /\ UNCHANGED clients
         ELSE \* not an LLMError: no handler in run_request, it propagates
              /\ pc' = "raised"
              /\ result' = Raised(o)
              /\ lastObserved' = o
              /\ obtained' = [obtained EXCEPT ![ti] = "failed"]
              /\ UNCHANGED <<clients, last_error, ti, att>>
    /\ UNCHANGED <<plan, run, nCalls, nSleeps, okCall, nonRetry, allRetryable>>

\* base.py:47-52: the generate call succeeds
CallOk ==
    /\ UNCHANGED <<chatVars, cacheVars, facadeVars, miscVars>>
    /\ pc = "attempt"
    /\ nEvents' = nEvents + 1
    /\ nCalls' = [nCalls EXCEPT ![ti] = @ + 1]
    /\ \E m \in Messages :
         /\ okCall' = [resp |-> Response(m), total |-> TotalCalls + 1]
         /\ result' = Response(m)
    /\ pc' = AfterSuccess
    /\ allRetryable' = FALSE
    /\ UNCHANGED <<plan, clients, ti, att, last_error, run, nSleeps, lastObserved,
                   nonRetry, obtained>>

\* base.py:53-61: the generate call fails with an LLMError
CallFail ==
    /\ UNCHANGED <<chatVars, cacheVars, facadeVars, miscVars>>
    /\ pc = "attempt"
    /\ nEvents' = nEvents + 1
    /\ nCalls' = [nCalls EXCEPT ![ti] = @ + 1]
    /\ \E c \in CallCodes :
         LET e == LLMError(c, nEvents + 1) IN
         /\ last_error' = Remember(last_error, e)
         /\ lastObserved' = e
         /\ nonRetry' = [nonRetry EXCEPT ![ti] = @ \/ ~_status_code_matches(plan.retry_on, c)]
         /\ allRetryable' = (allRetryable /\ _status_code_matches(plan.retry_on, c))
         /\ IF ShouldRetry(c)
            THEN /\ pc' = "sleep"
                 /\ UNCHANGED <<ti, att, result>>
            ELSE Advance(ti, Remember(last_error, e))
    /\ UNCHANGED <<plan, clients, run, nSleeps, okCall, obtained>>

\* base.py:57-58: asyncio.sleep(backoff_sec) is over, continue
Sleep ==
    /\ UNCHANGED <<chatVars, cacheVars, facadeVars, miscVars>>
    /\ pc = "sleep"
    /\ nSleeps' = [nSleeps EXCEPT ![ti] = @ + 1]
    /\ IF MoreAttempts(att)
       THEN /\ pc' = "attempt"
            /\ att' = att + 1
            /\ UNCHANGED <<ti, result>>
       ELSE Advance(ti, last_error)
    /\ UNCHANGED <<plan, clients, last_error, run, nCalls, nEvents, lastObserved,
                   okCall, nonRetry, allRetryable, obtained>>

\* base.py:30-34, the caller starts a run_request with a plan, on the
\* registry the earlier runs left
NewRun ==
    /\ UNCHANGED <<chatVars, cacheVars, facadeVars, miscVars>>
    /\ pc = "idle"
    /\ run < MaxRuns
    /\ run' = run + 1
    /\ \E p \in Plans : plan' = p
    /\ pc' = "target"
    /\ UNCHANGED <<clients, ti, att, last_error, result, nCalls, nSleeps, nEvents,
                   lastObserved, okCall, nonRetry, allRetryable, obtained>>

\* base.py:48 and 63-66, the call is over: the caller has the response or
\* the exception, the frame of run_request is gone and the registry stays
EndRun ==
    /\ UNCHANGED <<chatVars, cacheVars, facadeVars, miscVars>>
    /\ pc \in Done
    /\ plan' = NoPlan
    /\ pc' = "idle"
    /\ ti' = 1
    /\ att' = 0
    /\ last_error' = NoError
    /\ result' = NoResult
    /\ nCalls' = [t \in TargetIdx |-> 0]
    /\ nSleeps' = [t \in TargetIdx |-> 0]
    /\ lastObserved' = NoError
    /\ okCall' = NoOk
    /\ nonRetry' = [t \in TargetIdx |-> FALSE]
    /\ allRetryable' = TRUE
    /\ obtained' = [t \in TargetIdx |-> "unvisited"]
    /\ nEvents' = 0
    /\ UNCHANGED <<clients, run>>


\* the tasks of a set that have finished (task.done())
DoneIn(P) == {u \in P : task[u] \in Finished}

\* variant: the unit is launched without waiting for a permit
InflightFree_Always == TRUE

\* base.py:126, "await inflight_sem.acquire()" can return
InflightFree == inflight_sem > 0

\* variant: the section is entered without waiting for a permit
SemaphoreFree_Always == TRUE

\* base.py:92, "async with semaphore" can be entered
SemaphoreFree == semaphore > 0

\* variant: the done callback does not release
_release_inflight_Skip(v) == v

\* base.py:120-121, the done callback of a unit: inflight_sem.release()
_release_inflight(v) == v + 1

\* variant: the drained tasks stay in pending
DrainPending_Keep(p, d) == p

\* base.py:135, "pending -= done"
DrainPending(p, d) == p \ d

\* variant: the finally block does not wait for the cancelled tasks
GatherReturns_NoWait(g) == TRUE

\* base.py:158, "await asyncio.gather(*pending, return_exceptions=True)" returns
GatherReturns(g) == \A u \in pending[g] : task[u] \in Finished

\* base.py:156, t.cancel(): no effect on a finished task, otherwise the
\* task gets CancelledError at its next step
CancelTask(st) == CASE st = "created" -> "c_created"
                    [] st = "gated" -> "c_gated"
                    [] OTHER -> st

\* ChatRequest.id (base.py:71) of the request a unit was created for; the
\* requests of the inputs have distinct ids
RequestId(u) == u

\* base.py:138-140 and 149-151, the value yielded for a finished unit:
\* task.result() raises the exception of the unit and "yield e" yields it.
\* The exception is what run_chat raises (base.py:99), built from a
\* constant text, and holds nothing of chat_request; without the semaphore
\* it is the LLMError of base.py:90
YieldedValue(u) ==
    IF "semaphore" \in configured
    THEN [kind |-> "NotImplementedError", text |-> "Implement this function"]
    ELSE [kind |-> "LLMError", text |-> "Semaphores not configured", status_code |-> 605]

\* the request id a yielded value carries, if it carries one
IdOf(v) == IF "id" \in DOMAIN v THEN v.id ELSE <<0, 0>>

\* variant: the exception of the unit is not caught and leaves the try block
OnFailure_Reraise(state) == "gather"

\* base.py:139-140 and 150-151, "except Exception as e: yield e": the
\* failure of the unit is caught and the generator is suspended at the yield
\* of the same site
OnFailure(state) == state

\* base.py:138-140 and 149-151: one iteration of "for task in done", up to
\* the yield; d is the part of done not yet iterated over
YieldOne(g, d, state) ==
    \E x \in d :
        /\ yielded' = [yielded EXCEPT ![x] = @ + 1]
        /\ done' = [done EXCEPT ![g] = d \ {x}]
        /\ gpc' = [gpc EXCEPT ![g] = OnFailure(state)]

\* base.py:153-158, the finally block up to the await of gather; the local
\* done is dead from here on
Teardown(g) ==
    /\ task' = [u \in Units |-> IF u \in pending[g] THEN CancelTask(task[u]) ELSE task[u]]
    /\ gpc' = [gpc EXCEPT ![g] = IF pending[g] # {} THEN "gather" ELSE "closed"]
    /\ done' = [done EXCEPT ![g] = {}]
    /\ UNCHANGED pending

\* requests taken from the inputs of all chat() invocations
RECURSIVE TakenUpTo(_)
TakenUpTo(n) == IF n = 0 THEN 0 ELSE taken[n] + TakenUpTo(n - 1)

\* base.py:126-140, the inflight permit is taken, the unit for request k is
\* launched and the finished tasks of pending are drained
Launch(g, k) ==
    /\ inflight_sem' = inflight_sem - 1
    /\ LET u == <<g, k>>
           p == pending[g] \cup {u}
           d == DoneIn(p)
       IN  /\ task' = [task EXCEPT ![u] = "created"]
           /\ IF d # {}
              THEN /\ pending' = [pending EXCEPT ![g] = DrainPending(p, d)]
                   /\ YieldOne(g, d, "yield_drain")
              ELSE /\ pending' = [pending EXCEPT ![g] = p]
                   /\ gpc' = [gpc EXCEPT ![g] = "next"]
                   /\ UNCHANGED <<done, yielded>>

\* base.py:124-140, chat_requests gives the next request; acquire() does not
\* suspend when a permit is free, so the unit is launched in the same step,
\* and otherwise chat() waits for a permit
TakeRequest(g) ==
    /\ gpc[g] = "next"
    /\ taken[g] < MaxRequests
    /\ TakenUpTo(NChats) < MaxUnits
    /\ taken' = [taken EXCEPT ![g] = @ + 1]
    /\ IF InflightFree
       THEN Launch(g, taken[g] + 1)
       ELSE /\ gpc' = [gpc EXCEPT ![g] = "acquire"]
            /\ UNCHANGED <<inflight_sem, pending, done, task, yielded>>
    /\ UNCHANGED <<max_concurrency, semaphore, released>>
    /\ UNCHANGED <<execVars, cacheVars, facadeVars, miscVars>>

\* base.py:124 and 142-151, chat_requests is exhausted (an input of taken[g]
\* requests)
InputEnds(g) ==
    /\ gpc[g] = "next"
    /\ gpc' = [gpc EXCEPT ![g] = IF pending[g] # {} THEN "wait" ELSE "exhausted"]
    /\ UNCHANGED <<max_concurrency, semaphore, inflight_sem, taken, pending,
                   done, task, yielded, released>>
    /\ UNCHANGED <<execVars, cacheVars, facadeVars, miscVars>>

\* base.py:124 and 153-158, chat_requests raises
InputRaises(g) ==
    /\ gpc[g] = "next"
    /\ Teardown(g)
    /\ UNCHANGED <<max_concurrency, semaphore, inflight_sem, taken, yielded, released>>
    /\ UNCHANGED <<execVars, cacheVars, facadeVars, miscVars>>

\* base.py:126-140, chat() waited for an inflight permit and gets it
Admit(g) ==
    /\ gpc[g] = "acquire"
    /\ InflightFree
    /\ Launch(g, taken[g])
    /\ UNCHANGED <<max_concurrency, semaphore, taken, released>>
    /\ UNCHANGED <<execVars, cacheVars, facadeVars, miscVars>>

\* base.py:143-151, asyncio.wait returns with the tasks that are done
Wait(g) ==
    /\ gpc[g] = "wait"
    /\ DoneIn(pending[g]) # {}
    /\ LET d == DoneIn(pending[g])
       IN  /\ pending' = [pending EXCEPT ![g] = pending[g] \ d]
           /\ YieldOne(g, d, "yield_flush")
    /\ UNCHANGED <<max_concurrency, semaphore, inflight_sem, taken, task, released>>
    /\ UNCHANGED <<execVars, cacheVars, facadeVars, miscVars>>

\* the consumer asks for the next value: the generator resumes after a yield
Resume(g) ==
    /\ gpc[g] \in {"yield_drain", "yield_flush"}
    /\ IF done[g] # {}
       THEN YieldOne(g, done[g], gpc[g])
       ELSE /\ UNCHANGED <<done, yielded>>
            /\ gpc' = [gpc EXCEPT ![g] =
                          IF gpc[g] = "yield_drain" THEN "next"
                          ELSE IF pending[g] # {} THEN "wait"
                          ELSE "exhausted"]
    /\ UNCHANGED <<max_concurrency, semaphore, inflight_sem, taken, pending,
                   task, released>>
    /\ UNCHANGED <<execVars, cacheVars, facadeVars, miscVars>>

\* the consumer stops iterating: the generator is closed at its yield
Stop(g) ==
    /\ gpc[g] \in {"yield_drain", "yield_flush"}
    /\ Teardown(g)
    /\ UNCHANGED <<max_concurrency, semaphore, inflight_sem, taken, yielded, released>>
    /\ UNCHANGED <<execVars, cacheVars, facadeVars, miscVars>>

\* the task iterating chat() is cancelled while chat() awaits in its try
\* block.  A cancellation that arrives in the await of gather changes
\* nothing here: gather (return_exceptions=True) raises it only when every
\* task of pending has finished
Cancel(g) ==
    /\ gpc[g] \in {"next", "acquire", "wait"}
    /\ Teardown(g)
    /\ UNCHANGED <<max_concurrency, semaphore, inflight_sem, taken, yielded, released>>
    /\ UNCHANGED <<execVars, cacheVars, facadeVars, miscVars>>

\* base.py:158, gather returns and chat() is over
GatherDone(g) ==
    /\ gpc[g] = "gather"
    /\ GatherReturns(g)
    /\ gpc' = [gpc EXCEPT ![g] = "closed"]
    /\ pending' = [pending EXCEPT ![g] = {}]
    /\ UNCHANGED <<max_concurrency, semaphore, inflight_sem, taken,
                   done, task, yielded, released>>
    /\ UNCHANGED <<execVars, cacheVars, facadeVars, miscVars>>

\* base.py:86-92, run_chat enters the section gated by the semaphore
Enter(u) ==
    /\ task[u] = "created"
    /\ "semaphore" \in configured
    /\ SemaphoreFree
    /\ semaphore' = semaphore - 1
    /\ task' = [task EXCEPT ![u] = "gated"]
    /\ UNCHANGED <<max_concurrency, inflight_sem, taken, gpc, pending, done,
                   yielded, released>>
    /\ UNCHANGED <<execVars, cacheVars, facadeVars, miscVars>>

\* base.py:92-99 and 120-121, run_chat leaves the section and raises; the
\* done callback of the task releases the inflight permit
Leave(u) ==
    /\ task[u] = "gated"
    /\ semaphore' = semaphore + 1
    /\ task' = [task EXCEPT ![u] = "failed"]
    /\ inflight_sem' = _release_inflight(inflight_sem)
    /\ released' = [released EXCEPT ![u] = @ + (_release_inflight(0))]
    /\ UNCHANGED <<max_concurrency, taken, gpc, pending, done, yielded>>
    /\ UNCHANGED <<execVars, cacheVars, facadeVars, miscVars>>

\* the task receives CancelledError: it leaves the section if it was inside,
\* and its done callback releases the inflight permit
Cancelled(u) ==
    /\ task[u] \in {"c_created", "c_gated"}
    /\ semaphore' = IF task[u] = "c_gated" THEN semaphore + 1 ELSE semaphore
    /\ task' = [task EXCEPT ![u] = "cancelled"]
    /\ inflight_sem' = _release_inflight(inflight_sem)
    /\ released' = [released EXCEPT ![u] = @ + (_release_inflight(0))]
    /\ UNCHANGED <<max_concurrency, taken, gpc, pending, done, yielded>>
    /\ UNCHANGED <<execVars, cacheVars, facadeVars, miscVars>>

Init == InitRun /\ IdleChat /\ IdleCache /\ IdleFacade /\ IdleMisc

Next ==
    \/ ReuseClient
    \/ ConstructClient
    \/ CallOk
    \/ CallFail
    \/ Sleep
    \/ NewRun
    \/ EndRun

Spec == Init /\ [][Next]_vars


(***************************************************************************)
(* Properties of run_request.                                              *)
(***************************************************************************)
FairSpec == Spec /\ WF_vars(ReuseClient \/ ConstructClient \/ CallOk \/ CallFail \/ Sleep)

\* C1: as soon as one generate call succeeds, run_request has returned the
\* response of that call, and no generate call is made after it: the number
\* of calls stays what it was when the call succeeded.
C1_FirstSuccessReturns ==
    okCall # NoOk =>
        /\ pc = "returned"
        /\ result = okCall.resp
        /\ TotalCalls = okCall.total

\* a success on a target that is not the last, with attempts left, after an
\* earlier failed call
C1_Witness ==
    /\ okCall # NoOk
    /\ pc = "returned"
    /\ ti < NTargets
    /\ att < plan.max_attempts
    /\ TotalCalls >= 2

\* the targets are called in order: no target after the current one has
\* been called, and calls are made on the current target only
CalledInOrder == \A t \in TargetIdx : t > ti => nCalls[t] = 0

\* C2 as stated: when generate calls were made and every one of them failed with a matching code, the
\* targets are called in order and the calls number (N+1) x max_attempts.
C2_Original ==
    (allRetryable /\ TotalCalls > 0) =>
        /\ CalledInOrder
        /\ pc \in Done => TotalCalls = NTargets * plan.max_attempts

\* the targets whose client was found in the registry or constructed
Obtained == {t \in 1..NTargets : obtained[t] = "obtained"}

\* C2 amended: when every generate call failed with a matching code, the
\* targets are called in order; every target before the current one was
\* visited, and got max_attempts calls if its client was obtained and no
\* call if the construction of its client failed; at the end the calls
\* number max_attempts x (targets whose client was obtained), which is
\* (N+1) x max_attempts when the client of every target was obtained.
C2_RetryableExhaustsObtainedTargets ==
    allRetryable =>
        /\ CalledInOrder
        /\ \A t \in 1..NTargets :
             t < ti =>
                /\ obtained[t] # "unvisited"
                /\ nCalls[t] = IF t \in Obtained THEN plan.max_attempts ELSE 0
        /\ pc \in Done =>
             /\ nCalls[ti] = IF ti \in Obtained THEN plan.max_attempts ELSE 0
             /\ TotalCalls = Cardinality(Obtained) * plan.max_attempts
             /\ Obtained = 1..NTargets => TotalCalls = NTargets * plan.max_attempts

\* every target obtained and exhausted, with fallbacks and retries
C2_Witness ==
    /\ allRetryable
    /\ pc = "raised"
    /\ NTargets >= 2
    /\ plan.max_attempts >= 2
    /\ Obtained = 1..NTargets
    /\ TotalCalls = NTargets * plan.max_attempts

\* C3: when a generate call on target t fails with a code that matches no
\* retry_on pattern, the very next position of run_request is the next
\* target (or the final raise when t is the last), and t is never called again.
C3_NonRetryableAdvances ==
    [][\A t \in TargetIdx :
         nonRetry'[t] =>
            /\ IF t < NTargets THEN ti' > t ELSE pc' = "raised"
            /\ ~nonRetry[t] /\ t < NTargets => (ti' = t + 1 /\ pc' = "target")
            /\ nonRetry[t] => nCalls'[t] = nCalls[t]
            /\ nSleeps'[t] < nCalls'[t]]_vars

\* a non-retryable failure with attempts left, and the next target called
C3_Witness ==
    \E t \in TargetIdx :
        /\ nonRetry[t]
        /\ nCalls[t] < plan.max_attempts
        /\ ti = t + 1
        /\ nCalls[ti] > 0

\* C4: no target gets more than max_attempts generate calls, the total is
\* at most (1 + number of fallbacks) x max_attempts, and every run_request
\* terminates.
C4_BoundedAndTerminates ==
    /\ [](\A t \in TargetIdx : nCalls[t] <= plan.max_attempts)
    /\ [](TotalCalls <= NTargets * plan.max_attempts)
    /\ (pc \in {"target", "attempt", "sleep"}) ~> (pc \in Done)

\* a run that used every attempt of every target
C4_Witness ==
    /\ pc \in Done
    /\ NTargets = MaxFallbacks + 1
    /\ plan.max_attempts = MaxAttempts
    /\ \A t \in 1..NTargets : nCalls[t] = plan.max_attempts

\* C5: when run_request ends without a successful generate call, it ends by
\* raising, and what it raises is the failure observed last in time.
C5_RaisesLastObserved ==
    (pc \in Done /\ okCall = NoOk) =>
        /\ pc = "raised"
        /\ result.kind = "Raised"
        /\ lastObserved # NoError => result = Raised(lastObserved)

\* failed calls on an earlier target, then the construction failure of a
\* later target is what is raised
C5_Witness ==
    /\ pc = "raised"
    /\ okCall = NoOk
    /\ TotalCalls >= 2
    /\ result = Raised(LLMError(600, nEvents))


(***************************************************************************)
(* Properties of chat() and run_chat.                                      *)
(***************************************************************************)
Gated == {u \in Units : task[u] \in {"gated", "c_gated"}}

Running == {u \in Units : task[u] \in {"created", "gated", "c_created", "c_gated"}}

\* C6: a result is yielded at most once and only when its unit has
\* finished; when chat() g was iterated to exhaustion, each of the taken[g]
\* requests of its input was yielded exactly once and nothing else was
\* yielded.
C6_ExactlyOnePerRequest ==
    /\ \A u \in Units : yielded[u] <= 1
    /\ \A u \in Units : yielded[u] = 1 => task[u] \in Finished
    /\ \A g \in Chats :
         gpc[g] = "exhausted" =>
             \A k \in 1..MaxRequests :
                 yielded[<<g, k>>] = IF k <= taken[g] THEN 1 ELSE 0

\* a chat() iterated to exhaustion, its result yielded by the flush loop,
\* while another chat() is suspended at the yield of the drain that follows
\* an admission
C6_Witness ==
    \E g, h \in Chats :
        /\ gpc[g] = "exhausted"
        /\ \E u \in UnitsOf(g) : yielded[u] = 1
        /\ gpc[h] = "yield_drain"
        /\ \E u \in UnitsOf(h) : yielded[u] = 1

\* C7: over all chat() invocations, the units launched and not finished are
\* at most the inflight limit, and each of them holds a permit of the
\* inflight semaphore that was acquired before it was launched.
C7_InflightBound ==
    /\ Cardinality(Running) <= InflightLimit(max_concurrency)
    /\ inflight_sem >= 0
    /\ Cardinality(Running) = InflightLimit(max_concurrency) - inflight_sem

\* the limit is reached by units of two chat() invocations, and a chat()
\* waits for a permit
C7_Witness ==
    /\ Cardinality(Running) = InflightLimit(max_concurrency)
    /\ \E u, v \in Running : u[1] # v[1]
    /\ \E g \in Chats : gpc[g] = "acquire"

\* C8: over all chat() invocations, the units inside the gated section of
\* run_chat are at most max_concurrency, each holds a permit of the
\* semaphore, and max_concurrency is at most the inflight limit.
C8_ConcurrencyBound ==
    /\ Cardinality(Gated) <= max_concurrency
    /\ semaphore >= 0
    /\ Cardinality(Gated) = max_concurrency - semaphore
    /\ max_concurrency <= InflightLimit(max_concurrency)

\* the section is full while an admitted unit of another chat() invocation
\* waits outside
C8_Witness ==
    /\ Cardinality(Gated) = max_concurrency
    /\ \E u \in Gated : \E v \in Units : u[1] # v[1] /\ task[v] = "created"

\* C9: once chat() g has left its try block by an early stop, an exception
\* or a cancellation, every unit still in pending is cancelled or already
\* finished; and when chat() g is over, by any exit, none of its units is
\* still running.
C9_NoUnitOutlivesChat ==
    \A g \in Chats :
        /\ gpc[g] \in {"gather", "closed"} =>
               \A u \in pending[g] : task[u] \in {"c_created", "c_gated"} \cup Finished
        /\ gpc[g] \in ChatOver =>
               \A u \in UnitsOf(g) : task[u] \in {"none"} \cup Finished

\* a chat() closed after it yielded a result: it found a unit pending,
\* cancelled it and waited for it
C9_Witness ==
    \E g \in Chats :
        /\ gpc[g] = "closed"
        /\ \E u \in UnitsOf(g) : yielded[u] = 1
        /\ \E u \in UnitsOf(g) : task[u] = "cancelled"

\* C10: a unit releases the inflight semaphore once, when it finishes, and
\* never otherwise; when chat() g is over, each unit it admitted has
\* released, and the permits that are taken are those of the units of the
\* other chat() invocations.
C10_InflightReleasedOnce ==
    /\ \A u \in Units : released[u] = IF task[u] \in Finished THEN 1 ELSE 0
    /\ \A g \in Chats :
         gpc[g] \in ChatOver =>
            /\ \A k \in 1..taken[g] : task[<<g, k>>] # "none" => released[<<g, k>>] = 1
            /\ inflight_sem = InflightLimit(max_concurrency)
                                - Cardinality({u \in Running : u[1] # g})
    /\ (\A g \in Chats : gpc[g] \in ChatOver) =>
           inflight_sem = InflightLimit(max_concurrency)

\* every chat() is over, one of them exhausted with a failed unit and one
\* closed with a cancelled unit
C10_Witness ==
    /\ \A g \in Chats : gpc[g] \in ChatOver
    /\ \E u \in Units : gpc[u[1]] = "closed" /\ task[u] = "cancelled" /\ released[u] = 1
    /\ \E u \in Units : gpc[u[1]] = "exhausted" /\ task[u] = "failed" /\ released[u] = 1
    /\ inflight_sem = InflightLimit(max_concurrency)

InitDispatch == InitChat /\ InitRun /\ IdleCache /\ IdleFacade /\ IdleMisc

NextChat ==
    \/ \E g \in Chats : TakeRequest(g)
    \/ \E g \in Chats : InputEnds(g)
    \/ \E g \in Chats : InputRaises(g)
    \/ \E g \in Chats : Admit(g)
    \/ \E g \in Chats : Wait(g)
    \/ \E g \in Chats : Resume(g)
    \/ \E g \in Chats : Stop(g)
    \/ \E g \in Chats : Cancel(g)
    \/ \E g \in Chats : GatherDone(g)
    \/ \E u \in Units : Enter(u)
    \/ \E u \in Units : Leave(u)
    \/ \E u \in Units : Cancelled(u)

SpecChat == InitDispatch /\ [][NextChat]_vars

(***************************************************************************)
(* A consumer that iterates every chat() to the end, over inputs that do   *)
(* not raise, with no cancellation: every await of chat() and of run_chat  *)
(* ends.                                                                   *)
(***************************************************************************)
NextStream ==
    \/ \E g \in Chats : TakeRequest(g)
    \/ \E g \in Chats : InputEnds(g)
    \/ \E g \in Chats : Admit(g)
    \/ \E g \in Chats : Wait(g)
    \/ \E g \in Chats : Resume(g)
    \/ \E u \in Units : Enter(u)
    \/ \E u \in Units : Leave(u)

FairStream == InitDispatch /\ [][NextStream]_vars /\ WF_vars(NextStream)

\* C11: with a consumer that iterates to the end, no failure of a unit makes
\* chat() leave its try block; what is yielded for a unit is the failure it
\* finished with; and in the end every chat() is exhausted with every request
\* it took executed and yielded once.
C11_FailureIsYieldedStreamGoesOn ==
    /\ [](\A g \in Chats : gpc[g] \notin {"gather", "closed"})
    /\ [](\A u \in Units : yielded[u] >= 1 => task[u] = "failed")
    /\ <>[](\A g \in Chats :
              /\ gpc[g] = "exhausted"
              /\ \A k \in 1..taken[g] :
                    task[<<g, k>>] = "failed" /\ yielded[<<g, k>>] = 1)

\* the failure of the first request of a chat() was yielded and its second
\* request runs
C11_Witness ==
    \E g \in Chats :
        /\ task[<<g, 1>>] = "failed"
        /\ yielded[<<g, 1>>] = 1
        /\ task[<<g, 2>>] = "gated"


\* C12 as stated: every yielded failure carries the id of the request that
\* failed, so two yielded failures of one chat() are told apart.
C12_Original ==
    /\ \A u \in Units : yielded[u] >= 1 => IdOf(YieldedValue(u)) = RequestId(u)
    /\ \A u, v \in Units :
          (u # v /\ u[1] = v[1] /\ yielded[u] >= 1 /\ yielded[v] >= 1) =>
              YieldedValue(u) # YieldedValue(v)

\* C13 as stated: when unit a of a chat() has finished while unit b of the
\* same chat() has not, a finished strictly before b, and from then on b's
\* result is yielded only when a's has been; and no result is yielded
\* before its unit has finished.
C13_Original ==
    /\ \A a, b \in Units :
          (a # b /\ a[1] = b[1]) =>
              []((task[a] \in Finished /\ task[b] \notin Finished) =>
                     [](yielded[b] >= 1 => yielded[a] >= 1))
    /\ [](\A u \in Units : yielded[u] >= 1 => task[u] \in Finished)

(***************************************************************************)
(* LLMService.get_or_run (service.py:147-161) on a cache that is None, an  *)
(* InMemoryCache or a DiskCache; the runner is the executor.               *)
(***************************************************************************)
\* service.py:43-44 and 55-69, self.cache.get(cache_key)
CacheGet(st, fs, k) ==
    IF cache_kind = "memory"
    THEN IF st[k].present THEN Returns(st[k].msg) ELSE ReturnsNone
    ELSE DiskCache_get(fs[k])

\* variant: a cached message is ignored
IsHit_Never(cached) == FALSE

\* service.py:153, "if cached is not None"
IsHit(cached) == cached.kind = "message"

\* variant: nothing is stored
ShouldStore_Never(uc, out) == FALSE

\* variant: the result is stored whether it carries a message or not
ShouldStore_Always(uc, out) == uc /\ cache_kind # "none" /\ out.kind = "response"

\* service.py:158, "if use_cache and self.cache is not None and
\* response.response is not None"
ShouldStore(uc, out) == uc /\ cache_kind # "none" /\ out.kind = "response" /\ out.has_message

\* service.py:147-156, get_or_run up to the await of the runner: the key is
\* built, a hit returns at once, an exception of cache.get leaves
\* get_or_run, and otherwise the runner is invoked
GetOrRun(c, p, uc) ==
    /\ cache_kind \in {"none", "memory", "disk"}
    /\ call[c].pc = "idle"
    /\ LET cached == IF uc /\ cache_kind # "none" THEN CacheGet(_store, files, build_cache_key(p))
                     ELSE ReturnsNone
       IN  call' = [call EXCEPT ![c] =
               IF IsHit(cached)
               THEN [pc |-> "returned", plan |-> p, use_cache |-> uc, hit |-> TRUE,
                     ran |-> 0, runner |-> NoOutcome,
                     result |-> LLMResponse(p.request_id, cached.msg)]
               ELSE IF cached.kind = "raise"
               THEN [pc |-> "raised", plan |-> p, use_cache |-> uc, hit |-> FALSE,
                     ran |-> 0, runner |-> NoOutcome, result |-> Raise(cached.exc)]
               ELSE [pc |-> "running", plan |-> p, use_cache |-> uc, hit |-> FALSE,
                     ran |-> 1, runner |-> NoOutcome, result |-> NoOutcome]]
    /\ UNCHANGED <<cache_kind, _store, files, got, planA, planB, keyA, keyB>>
    /\ UNCHANGED <<execVars, chatVars, facadeVars, miscVars>>

\* what the runner may end with for a plan: a Response with a text and its
\* provider-native original, one with a function request whose args hold a
\* value json cannot serialize, one without a message, or an error
RunnerOutcomes(p) ==
    {LLMResponse(p.request_id, LLMMessage("assistant", Text("hi"), "o1")),
     LLMResponse(p.request_id,
         LLMMessage("assistant", LLMFunctionRequest("f", Py("dict_of_bytes", <<"v">>)), None)),
     EmptyResponse(p.request_id),
     Raise("LLMError")}

\* service.py:156-161, the runner ends: its exception leaves get_or_run;
\* its response is stored when it carries a message, and returned unless
\* cache.set raises
RunnerEnds(c, out) ==
    /\ call[c].pc = "running"
    /\ out \in RunnerOutcomes(call[c].plan)
    /\ LET k == build_cache_key(call[c].plan)
           store == ShouldStore(call[c].use_cache, out)
       IN  \E w \in WriteOutcomes :
             LET set == IF store /\ cache_kind = "disk"
                        THEN DiskCache_set(files[k], out.msg, w)
                        ELSE ReturnsNone
             IN  /\ _store' = IF store /\ cache_kind = "memory"
                              THEN [_store EXCEPT ![k] = [present |-> TRUE, msg |-> out.msg]]
                              ELSE _store
                 /\ files' = IF store /\ cache_kind = "disk"
                             THEN [files EXCEPT ![k] = DiskCache_set_file(@, out.msg, w)]
                             ELSE files
                 /\ call' = [call EXCEPT ![c].pc =
                                 IF out.kind = "raise" \/ set.kind = "raise" THEN "raised"
                                 ELSE "returned",
                             ![c].runner = out,
                             ![c].result =
                                 IF out.kind # "raise" /\ set.kind = "raise" THEN Raise(set.exc)
                                 ELSE out]
    /\ UNCHANGED <<cache_kind, got, planA, planB, keyA, keyB>>
    /\ UNCHANGED <<execVars, chatVars, facadeVars, miscVars>>

\* the caller has the result of its call and may call again
Collect(c) ==
    /\ call[c].pc \in {"returned", "raised"}
    /\ call' = [call EXCEPT ![c] = NoCall]
    /\ UNCHANGED <<cache_kind, _store, files, got, planA, planB, keyA, keyB>>
    /\ UNCHANGED <<execVars, chatVars, facadeVars, miscVars>>

\* a service with any of the three caches, empty, and no call
InitService ==
    /\ cache_kind \in {"none", "memory", "disk"}
    /\ NoCalls
    /\ NoKeyed
    /\ InitRun
    /\ IdleChat
    /\ IdleFacade
    /\ IdleMisc

NextService ==
    \/ \E c \in Callers, p \in ServicePlans, uc \in BOOLEAN : GetOrRun(c, p, uc)
    \/ \E c \in Callers : \E out \in RunnerOutcomes(call[c].plan) : RunnerEnds(c, out)
    \/ \E c \in Callers : Collect(c)

SpecService == InitService /\ [][NextService]_vars

\* the cache holds a message under key k
HoldsEntry(k) == cache_kind # "none" /\ CacheGet(_store, files, k).kind = "message"

\* C14: a call of get_or_run with use_cache true, made when the configured
\* cache holds a message under the fingerprint of the plan, has returned in
\* the same step a Response with the request id of the plan and the cached
\* message, and did not invoke the runner.
C14_HitSkipsRunner ==
    [][\A c \in Callers :
         (/\ call[c].pc = "idle"
          /\ call'[c].pc # "idle"
          /\ call'[c].use_cache
          /\ HoldsEntry(build_cache_key(call'[c].plan)))
         => /\ call'[c].pc = "returned"
            /\ call'[c].ran = 0
            /\ call'[c].result = LLMResponse(call'[c].plan.request_id,
                                             CacheGet(_store, files, build_cache_key(call'[c].plan)).msg)]_vars

\* a hit on a DiskCache by a plan with another request id than the plan
\* whose run stored the entry
C14_Witness ==
    \E c \in Callers :
        /\ cache_kind = "disk"
        /\ call[c].pc = "returned"
        /\ call[c].hit
        /\ call[c].ran = 0
        /\ call[c].plan.request_id = "r2"
        /\ call[c].result.has_message

\* the key of the plan of caller c's call after the step
KeyOfCall(c) == build_cache_key(call'[c].plan)

\* caller c's call left the runner in this step
RunnerReturned(c) == call[c].pc = "running" /\ call'[c].pc # "running"

\* caller c entered get_or_run in this step
Entered(c) == call[c].pc = "idle" /\ call'[c].pc # "idle"

\* C15 as stated, for whichever cache is configured: a miss invokes the
\* runner exactly once, and when the runner's Response carries a message
\* and get_or_run returns it, the cache holds that message under the
\* fingerprint of the plan.
C15_Original ==
    [][\A c \in Callers :
         /\ (Entered(c) /\ ~(call'[c].use_cache /\ HoldsEntry(KeyOfCall(c))))
                => call'[c].pc = "running" /\ call'[c].ran = 1
         /\ (/\ RunnerReturned(c)
             /\ call'[c].use_cache
             /\ cache_kind # "none"
             /\ call'[c].pc = "returned"
             /\ call'[c].result.has_message)
            => /\ call'[c].ran = 1
               /\ CacheGet(_store', files', KeyOfCall(c)).kind = "message"
               /\ CacheGet(_store', files', KeyOfCall(c)).msg = call'[c].result.msg]_vars

\* C15: a miss invokes the runner exactly once whichever cache is
\* configured; with an InMemoryCache, when the runner's Response carries a
\* message, get_or_run has stored that message under the fingerprint of the
\* plan when it returns, no entry is ever removed, and a later get_or_run
\* of a plan with the same fingerprint returns the stored message without
\* invoking the runner.
C15_MissRunsOnceAndMemoryStores ==
    [][\A c \in Callers :
         /\ (Entered(c) /\ ~(call'[c].use_cache /\ HoldsEntry(KeyOfCall(c))))
                => call'[c].pc = "running" /\ call'[c].ran = 1
         /\ RunnerReturned(c) => call'[c].ran = 1
         /\ (/\ RunnerReturned(c)
             /\ call'[c].use_cache
             /\ cache_kind = "memory"
             /\ call'[c].result.kind = "response"
             /\ call'[c].result.has_message)
            => /\ call'[c].pc = "returned"
               /\ _store'[KeyOfCall(c)] = [present |-> TRUE, msg |-> call'[c].result.msg]
         /\ \A k \in ServiceKeys : _store[k].present => _store'[k].present
         /\ (/\ Entered(c)
             /\ call'[c].use_cache
             /\ cache_kind = "memory"
             /\ _store[KeyOfCall(c)].present)
            => /\ call'[c].pc = "returned"
               /\ call'[c].ran = 0
               /\ call'[c].result.msg = _store[KeyOfCall(c)].msg]_vars

\* with an InMemoryCache, one caller's run stored a message and a later
\* call of another caller, with a plan of the same fingerprint and another
\* request id, has returned that message without a run
C15_Witness ==
    \E c, d \in Callers :
        /\ cache_kind = "memory"
        /\ call[c].pc = "returned" /\ call[c].ran = 1 /\ call[c].result.has_message
        /\ call[d].pc = "returned" /\ call[d].ran = 0 /\ call[d].hit
        /\ call[c].plan.request_id # call[d].plan.request_id
        /\ build_cache_key(call[c].plan) = build_cache_key(call[d].plan)
        /\ call[d].result.msg = call[c].result.msg
        /\ _store[build_cache_key(call[c].plan)].msg = call[c].result.msg

\* C16: when the runner invoked by get_or_run raises, or returns a Response
\* without a message, the step in which get_or_run ends leaves the store of
\* the InMemoryCache and the files of the DiskCache as they were, the error
\* of the runner is what get_or_run raises, and a Response without a
\* message is returned as it is; every step that changes a cache is the end
\* of a call whose runner returned a Response with a message.
C16_NoMessageNoEntry ==
    [][/\ \A c \in Callers :
            (RunnerReturned(c) /\ ~(call'[c].runner.kind = "response"
                                    /\ call'[c].runner.has_message))
            => /\ _store' = _store
               /\ files' = files
               /\ call'[c].result = call'[c].runner
               /\ call'[c].pc = IF call'[c].runner.kind = "raise" THEN "raised"
                                ELSE "returned"
       /\ (_store' # _store \/ files' # files)
            => \E c \in Callers : /\ RunnerReturned(c)
                                  /\ call'[c].use_cache
                                  /\ call'[c].runner.kind = "response"
                                  /\ call'[c].runner.has_message]_vars

\* with a cache configured and use_cache true, one call has raised the
\* error of its runner and another has returned a Response without a
\* message, and the cache holds no entry
C16_Witness ==
    \E c, d \in Callers :
        /\ cache_kind # "none"
        /\ call[c].use_cache /\ call[c].pc = "raised"
        /\ call[c].runner = Raise("LLMError") /\ call[c].result = Raise("LLMError")
        /\ call[d].use_cache /\ call[d].pc = "returned"
        /\ call[d].runner = EmptyResponse(call[d].plan.request_id)
        /\ \A k \in ServiceKeys : ~_store[k].present /\ files[k] = File("missing", NoDoc)

(***************************************************************************)
(* build_cache_key on pairs of plans.                                      *)
(***************************************************************************)
\* two plans are given, no key is built yet
InitKey ==
    /\ planA \in KeyPlans
    /\ planB \in KeyPlans
    /\ keyA = NoKey
    /\ keyB = NoKey
    /\ cache_kind = "none"
    /\ NoCalls
    /\ InitRun
    /\ IdleChat
    /\ IdleFacade
    /\ IdleMisc

\* service.py:163-176, build_cache_key on the first plan (a = 1) or on the
\* second
BuildKey(a) ==
    /\ IF a = 1
       THEN keyA = NoKey /\ keyA' = build_cache_key(planA) /\ keyB' = keyB
       ELSE keyB = NoKey /\ keyB' = build_cache_key(planB) /\ keyA' = keyA
    /\ UNCHANGED <<cache_kind, _store, files, call, got, planA, planB>>
    /\ UNCHANGED <<execVars, chatVars, facadeVars, miscVars>>

NextKey == \E a \in {1, 2} : BuildKey(a)

SpecKey == InitKey /\ [][NextKey]_vars

\* the allowed tools of a plan as the claim compares them: no tools and an
\* empty list are alike, and the order of the names does not count
ToolsListed(p) ==
    IF p.agent_functions.some THEN SortedTools(p.agent_functions.list) ELSE << >>

DiskKeys == {build_cache_key(BasePlan)}

\* service.py:50-53, a DiskCache over a directory that holds no file
InitDisk ==
    /\ cache_kind = "disk"
    /\ NoCalls
    /\ NoKeyed
    /\ InitRun
    /\ IdleChat
    /\ IdleFacade
    /\ IdleMisc

\* another program leaves a file under the path of key k
Tamper(k, f) ==
    /\ f \in ForeignFiles
    /\ files' = [files EXCEPT ![k] = f]
    /\ got' = NoGot
    /\ UNCHANGED <<cache_kind, _store, call, planA, planB, keyA, keyB>>
    /\ UNCHANGED <<execVars, chatVars, facadeVars, miscVars>>

\* service.py:71-80, DiskCache.set(k, m) with write outcome w
DirectSet(k, m, w) ==
    /\ files' = [files EXCEPT ![k] = DiskCache_set_file(@, m, w)]
    /\ got' = [op |-> "set", key |-> k, msg |-> m, w |-> w,
               out |-> DiskCache_set(files[k], m, w)]
    /\ UNCHANGED <<cache_kind, _store, call, planA, planB, keyA, keyB>>
    /\ UNCHANGED <<execVars, chatVars, facadeVars, miscVars>>

\* service.py:55-69, DiskCache.get(k), on a fresh instance or not: a
\* DiskCache holds nothing but the name of its directory
DirectGet(k) ==
    /\ got' = IF got.op = "set" /\ got.key = k
              THEN [got EXCEPT !.op = "set_get", !.out = DiskCache_get(files[k])]
              ELSE [op |-> "get", key |-> k, msg |-> NoMessage, w |-> "none",
                    out |-> DiskCache_get(files[k])]
    /\ UNCHANGED <<cache_kind, _store, files, call, planA, planB, keyA, keyB>>
    /\ UNCHANGED <<execVars, chatVars, facadeVars, miscVars>>

NextDisk ==
    \/ \E k \in DiskKeys, f \in ForeignFiles : Tamper(k, f)
    \/ \E k \in DiskKeys, m \in KeyMessages, w \in WriteOutcomes : DirectSet(k, m, w)
    \/ \E k \in DiskKeys : DirectGet(k)

SpecDisk == InitDisk /\ [][NextDisk]_vars

\* C18 as stated: when get(key) follows set(key, m) and the write of the
\* file did not fail, get returns a message with the role and the content
\* of m.
C18_Original ==
    (got.op = "set_get" /\ got.w = "ok")
        => /\ got.out.kind = "message"
           /\ got.out.msg.role = got.msg.role
           /\ got.out.msg.content = got.msg.content

\* C19 as stated: a call of DiskCache.get never ends with an exception, and
\* on a file that is missing, unreadable, not structured data, or without
\* the members role, content_type and content as DiskCache.set writes them
\* for some message, it returns None.
C19_Original ==
    got.op \in {"get", "set_get"}
        => /\ got.out.kind # "raise"
           /\ (\A m \in KeyMessages :
                  \/ ~JsonSerializable(_serialize_message(m).content.value)
                  \/ files[got.key] # File("json", JsonDumpPayload(_serialize_message(m))))
              => got.out.kind = "none"

\* C20 as stated: whatever happens inside cache.set, a call of get_or_run
\* whose runner returned a Response ends by returning that Response, never
\* with an exception.
C20_Original ==
    \A c \in Callers :
        (call[c].pc \in {"returned", "raised"} /\ call[c].runner.kind = "response")
            => call[c].pc = "returned" /\ call[c].result = call[c].runner

(***************************************************************************)
(* prompt() on a service without a cache, and the provider's call_llm.     *)
(***************************************************************************)

\* service.py:93-145, prompt(text, profile=..., fallback_profiles=...,
\* model_config=..., provider_config=...) with the defaults of its other
\* parameters, on a service without a cache: the primary and the fallback
\* targets are resolved, and get_or_run (service.py:147-156) gives the plan
\* to the runner; an LLMServiceError leaves prompt() before that
Prompt(c, text, profile, fallback_profiles, mco, pco) ==
    /\ cache_kind = "none"
    /\ call[c].pc = "idle"
    /\ LET primary == _resolve_target(llm_config, profile, mco, pco)
           fbs == ResolveFallbacks(primary.cfg, fallback_profiles, mco, pco)
           failed == text = "" \/ primary.kind = "raise" \/ fbs.kind = "raise"
           built == [BasePlan EXCEPT !.contents = <<LLMMessage("user", Text(text), None)>>,
                                     !.agent_functions = primary.tools,
                                     !.primary = primary.target,
                                     !.fallbacks = fbs.targets]
       IN  /\ llm_config' = IF text = "" THEN llm_config
                            ELSE IF primary.kind = "raise" THEN primary.cfg
                            ELSE fbs.cfg
           /\ prompted' = [kind |-> IF failed THEN "raise" ELSE "plan",
                           exc |-> IF failed THEN "LLMServiceError" ELSE None,
                           prompt |-> text, profile |-> profile,
                           fallback_profiles |-> fallback_profiles,
                           model_config |-> mco, provider_config |-> pco,
                           plan |-> IF failed THEN BasePlan ELSE built,
                           overridden |-> prompted.overridden \/ mco # {} \/ pco # {}]
           /\ call' = IF failed THEN call
                      ELSE [call EXCEPT ![c] =
                               [pc |-> "running", plan |-> built, use_cache |-> TRUE,
                                hit |-> FALSE, ran |-> 1, runner |-> NoOutcome,
                                result |-> NoOutcome]]
    /\ UNCHANGED <<cache_kind, _store, files, got, planA, planB, keyA, keyB>>
    /\ UNCHANGED <<target_model_config, sent>>
    /\ UNCHANGED <<execVars, chatVars, miscVars>>

\* one caller calls prompt(), with a text, a profile name and up to
\* MaxFallbacks fallback names, without or with overrides, or without a
\* text; the runner ends
NextPrompt ==
    \/ \E profile \in {"default", "fast", "orphan", "nodef", "missing"},
          fallback_profiles \in UNION {[1..n -> {"default", "lite", "missing"}] :
                                          n \in 0..MaxFallbacks},
          mco \in {{}, {<<"temperature", "0.9">>, <<"max_tokens", "64">>}},
          pco \in {{}, {<<"region", "us">>, <<"timeout", "30">>}} :
            Prompt("c1", "hi", profile, fallback_profiles, mco, pco)
    \/ Prompt("c1", "", "default", << >>, {}, {})
    \/ \E out \in RunnerOutcomes(call["c1"].plan) : RunnerEnds("c1", out)
    \/ Collect("c1")

SpecPrompt == Init /\ [][NextPrompt]_vars

\* variant: the upper bounds of the two ranges are inclusive
RaisedFor_Inclusive(e) ==
    IF e.kind # "APIError" THEN [kind |-> "LLMError", status_code |-> 601]
    ELSE IF 400 <= e.code /\ e.code <= 500 THEN [kind |-> "LLMClientError", status_code |-> e.code]
    ELSE IF 500 <= e.code /\ e.code <= 600 THEN [kind |-> "LLMServerError", status_code |-> e.code]
    ELSE [kind |-> "LLMError", status_code |-> e.code]

\* google_provider.py:131-156, what the handlers of the generate call raise
\* for the exception e of the backend
RaisedFor(e) ==
    IF e.kind # "APIError" THEN [kind |-> "LLMError", status_code |-> 601]
    ELSE IF 400 <= e.code /\ e.code < 500 THEN [kind |-> "LLMClientError", status_code |-> e.code]
    ELSE IF 500 <= e.code /\ e.code < 600 THEN [kind |-> "LLMServerError", status_code |-> e.code]
    ELSE [kind |-> "LLMError", status_code |-> e.code]

\* variant: the wrapper writes into the mapping it was given
Given_InPlace(given, used) == used

\* google_provider.py:69, "dict(model_config)": the wrapper writes into a
\* copy, so the mapping it was given is afterwards what it was
Given(given, used) == given

\* google_provider.py:64-176, wrapper(request, model, model_config) with the
\* backend ending in o: the config built for the generate call, whether
\* the call was made, and what the wrapper returns or raises
wrapper(request, given, o) ==
    LET c0 == given
        c1 == IF request.system_prompt # None
              THEN Update(c0, {<<"system_instruction", request.system_prompt>>})
              ELSE c0
        c2 == IF request.structured_output # None
              THEN Update(c1, {<<"response_mime_type", "application/json">>,
                               <<"response_json_schema", request.structured_output>>})
              ELSE c1
        c3 == IF request.agent_functions.some /\ request.agent_functions.list # << >>
              THEN Update(c2, {<<"tools", request.agent_functions.list>>})
              ELSE c2
    IN  [config |-> c3,
         called |-> o.kind \notin {"convert_ValueError", "convert_Exception"},
         out |-> CASE o.kind = "convert_ValueError" -> [kind |-> "LLMError", status_code |-> 602]
                   [] o.kind = "convert_Exception" -> [kind |-> "LLMError", status_code |-> 601]
                   [] o.kind \in {"APIError", "Exception"} -> RaisedFor(o)
                   [] o.kind = "empty" -> [kind |-> "LLMError", status_code |-> 603]
                   [] o.kind = "content" -> [kind |-> "LLMResponse", status_code |-> 0]]

\* base.py:48-52, a call of call_llm with the mapping of the target
CallLLM(request, o) ==
    /\ LET w == wrapper(request, target_model_config, o)
       IN  /\ sent' = [config |-> w.config, system_prompt |-> request.system_prompt,
                       called |-> w.called, backend |-> o, out |-> w.out,
                       after_system |-> sent.after_system \/ sent.system_prompt # None]
           /\ target_model_config' = Given(target_model_config, w.config)
    /\ UNCHANGED <<llm_config, prompted, execVars, chatVars, cacheVars, miscVars>>

\* calls of call_llm, each with a request and an end of the backend: a
\* failure to convert the contents, an APIError with a code, another
\* exception, a response without content or one with content
SpecCall ==
    Init /\ [][\E request \in [system_prompt : {None, "be brief"},
                               structured_output : {None, "schema"},
                               agent_functions : {NoTools, Tools(<<"a">>)}],
                  o \in [kind : {"APIError"},
                         code : {302, 399, 400, 404, 429, 499, 500, 503, 599, 600, 604}]
                        \cup [kind : {"convert_ValueError", "convert_Exception", "Exception",
                                      "empty", "content"},
                              code : {0}] :
                    CallLLM(request, o)]_vars

(***************************************************************************)
(* Properties of prompt() and _resolve_target.                             *)
(***************************************************************************)

\* C21 as stated: a call of prompt() whose primary profile or a fallback
\* profile is not in the profile registry, or names a model that is not in
\* the model registry, or resolves to a provider that is not in the
\* provider registry, ends with an LLMServiceError, and the runner was not
\* invoked for it.
C21_Original ==
    LET Dangling(n) ==
            \/ n \notin DOMAIN LLMConfig.profiles
            \/ LLMConfig.profiles[n].model \notin DOMAIN LLMConfig.models
            \/ (IF LLMConfig.profiles[n].provider # None THEN LLMConfig.profiles[n].provider
                ELSE LLMConfig.models[LLMConfig.profiles[n].model].default_provider)
                   \notin DOMAIN LLMConfig.providers
    IN  (/\ prompted.kind # "none"
         /\ \/ Dangling(prompted.profile)
            \/ \E i \in 1..Len(prompted.fallback_profiles) :
                  Dangling(prompted.fallback_profiles[i]))
            => /\ prompted.kind = "raise"
               /\ prompted.exc = "LLMServiceError"
               /\ call["c1"].pc = "idle"

\* C22: in the target prompt() resolved, the model config holds every item
\* of the override, every item of the model's generation defaults whose key
\* the override does not have, and nothing else; the provider config is
\* the same overlay of the override on the provider's defaults.
C22_OverrideWinsOthersKept ==
    LET Overlay(d, o, t) ==
            /\ o \subseteq t
            /\ \A kv \in d : (\A x \in o : x[1] # kv[1]) => kv \in t
            /\ t \subseteq d \cup o
            /\ \A kv \in t, x \in t : kv[1] = x[1] => kv = x
        profile == LLMConfig.profiles[prompted.profile]
        target == prompted.plan.primary
    IN  prompted.kind = "plan"
            => /\ Overlay(LLMConfig.models[profile.model].generation,
                          prompted.model_config, target.model_config)
               /\ Overlay(IF target.provider \in DOMAIN LLMConfig.providers
                          THEN LLMConfig.providers[target.provider] ELSE {},
                          prompted.provider_config, target.provider_config)

\* both overrides share a key with the defaults, have a key of their own
\* and leave a key of the defaults alone
C22_Witness ==
    /\ prompted.kind = "plan"
    /\ prompted.profile = "default"
    /\ prompted.plan.primary.model_config
          = {<<"temperature", "0.9">>, <<"top_p", "0.9">>, <<"max_tokens", "64">>}
    /\ prompted.plan.primary.provider_config
          = {<<"api_key_env", "GEMINI_API_KEY">>, <<"region", "us">>, <<"timeout", "30">>}

\* C23: the registries of llm_config stay what they were at construction,
\* whatever calls of prompt() were made; and a call without overrides
\* resolves to the defaults of the registries, also after calls that
\* carried overrides.
C23_ConfigurationNeverChanges ==
    /\ llm_config = LLMConfig
    /\ (prompted.kind = "plan" /\ prompted.model_config = {} /\ prompted.provider_config = {})
          => LET profile == LLMConfig.profiles[prompted.profile]
                 target == prompted.plan.primary
             IN  /\ target.model_config = LLMConfig.models[profile.model].generation
                 /\ target.provider \in DOMAIN LLMConfig.providers
                       => target.provider_config = LLMConfig.providers[target.provider]

\* a call without overrides, after a call with overrides
C23_Witness ==
    /\ prompted.kind = "plan"
    /\ prompted.overridden
    /\ prompted.model_config = {}
    /\ prompted.provider_config = {}
    /\ prompted.profile = "default"
    /\ prompted.plan.primary.model_config = {<<"temperature", "0.2">>, <<"top_p", "0.9">>}

\* C24: the primary target of the plan is what _resolve_target gives for
\* the profile name with the overrides of the call, and the fallback
\* targets are, one per name of fallback_profiles and in the order of the
\* names, what _resolve_target gives for each name with the same overrides.
C24_FallbacksInOrder ==
    prompted.kind = "plan"
        => LET Resolved(n) == _resolve_target(LLMConfig, n, prompted.model_config,
                                              prompted.provider_config).target
           IN  /\ prompted.plan.primary = Resolved(prompted.profile)
               /\ Len(prompted.plan.fallbacks) = Len(prompted.fallback_profiles)
               /\ \A i \in 1..Len(prompted.fallback_profiles) :
                     prompted.plan.fallbacks[i] = Resolved(prompted.fallback_profiles[i])

\* two fallback names that resolve to different targets
C24_Witness ==
    /\ prompted.kind = "plan"
    /\ prompted.profile = "default"
    /\ prompted.fallback_profiles = <<"lite", "default">>
    /\ prompted.plan.fallbacks[1].model = "lite"
    /\ prompted.plan.fallbacks[2].model = "gemini-pro"

(***************************************************************************)
(* Properties of run_request and the client registry, continued.           *)
(***************************************************************************)

\* C25 as stated: when the construction of the client of a target fails,
\* run_request records that error as its last error, makes no generate call
\* for that target, and goes on with the next target (or, after the last
\* target, raises the recorded error) instead of aborting the run.
C25_Original ==
    [][(pc = "target" /\ obtained'[ti] = "failed")
          => /\ last_error' = lastObserved'
             /\ nCalls' = nCalls
             /\ IF ti < NTargets
                THEN pc' = "target" /\ ti' = ti + 1
                ELSE pc' = "raised" /\ result' = Raised(last_error')]_vars

\* C26: over the runs on one registry a client is constructed only for a
\* provider that has none, a provider that has one is served without a
\* construction, entries are never removed, the only entry a step adds is
\* the provider of the current target when its construction succeeded, and
\* a provider whose construction failed is not in the registry afterwards.
C26_OneClientPerProvider ==
    [][/\ clients \subseteq clients'
       /\ (pc = "target" /\ nEvents' # nEvents) => plan.targets[ti] \notin clients
       /\ (pc = "target" /\ plan.targets[ti] \in clients)
             => obtained'[ti] = "obtained" /\ nEvents' = nEvents
       /\ clients' # clients
             => /\ pc = "target"
                /\ clients' = clients \cup {plan.targets[ti]}
                /\ obtained'[ti] = "obtained"
       /\ (pc = "target" /\ obtained'[ti] = "failed")
             => plan.targets[ti] \notin clients']_vars

\* in the second run the client of the first target was obtained without
\* any construction, and the third target's construction then failed
C26_Witness ==
    /\ run = 2
    /\ NTargets = 3
    /\ nEvents = 1
    /\ obtained = <<"obtained", "obtained", "failed">>
    /\ clients = {"google"}

\* C27: the construction of a client for a provider identifier that is not
\* supported ends with an LLMError of status code 600, which run_request
\* handles like any LLMError (it is recorded, the run goes on or raises it);
\* no client is registered for that provider, then or ever.
C27_UnsupportedProviderIs600 ==
    [][/\ (pc = "target" /\ plan.targets[ti] # "google")
             => /\ lastObserved' = LLMError(600, nEvents')
                /\ last_error' = lastObserved'
                /\ obtained'[ti] = "failed"
                /\ pc' \in {"target", "raised"}
                /\ pc' = "raised" => result' = Raised(LLMError(600, nEvents'))
       /\ clients' \subseteq {"google"}]_vars

\* the only target is not supported: the run raised the 600 error
C27_Witness ==
    /\ pc = "raised"
    /\ plan.targets = <<"azure">>
    /\ result = Raised(LLMError(600, 1))
    /\ clients = {}

(***************************************************************************)
(* Properties of the provider's call_llm.                                  *)
(***************************************************************************)

\* C28: when the generate call ends with a backend error, call_llm raises
\* a client error with the same code for a code in 400..499, a server error
\* with the same code for a code in 500..599, and a plain LLMError with the
\* same code for any other code; when it ends with any other exception,
\* call_llm raises an LLMError with code 601.
C28_BackendErrorsClassified ==
    LET e == sent.backend IN
    /\ (e.kind = "APIError" /\ e.code \in 400..499)
          => sent.out = [kind |-> "LLMClientError", status_code |-> e.code]
    /\ (e.kind = "APIError" /\ e.code \in 500..599)
          => sent.out = [kind |-> "LLMServerError", status_code |-> e.code]
    /\ (e.kind = "APIError" /\ e.code \notin 400..599)
          => sent.out = [kind |-> "LLMError", status_code |-> e.code]
    /\ e.kind = "Exception"
          => sent.out = [kind |-> "LLMError", status_code |-> 601]

\* the backend failed with the first code of the server range
C28_Witness ==
    /\ sent.called
    /\ sent.backend = [kind |-> "APIError", code |-> 500]
    /\ sent.out = [kind |-> "LLMServerError", status_code |-> 500]

\* C29: the mapping given to call_llm is after every call what it was
\* before the first, and a call for a request without a system prompt
\* passes no system instruction to the backend, whatever the earlier calls
\* with the same mapping passed.
C29_CallLeavesMappingAlone ==
    /\ target_model_config = LLMConfig.models.gem.generation
    /\ (sent.backend.kind # "none" /\ sent.system_prompt = None)
          => \A kv \in sent.config : kv[1] # "system_instruction"

\* a call without a system prompt, made after a call with one
C29_Witness ==
    /\ sent.called
    /\ sent.after_system
    /\ sent.system_prompt = None
    /\ sent.config = target_model_config

\* C30 as stated: a run_request on a plan with a primary target ends with a
\* response or with an error observed from one of its targets, never with
\* the "no target" error 604.
C30_Original ==
    pc \in Done
        => /\ result # Raised(LLMError(604, 0))
           /\ \/ result.kind = "Response"
              \/ lastObserved # NoError /\ result = Raised(lastObserved)

(***************************************************************************)
(* Properties of the retry policy.                                         *)
(***************************************************************************)

\* C34 as stated: when run_request has ended, the number of backoff waits
\* spent on a target is the number of calls made on it minus one (and none
\* on a target without calls): no wait after the last attempt on a target.
C34_Original ==
    pc \in Done
        => \A t \in 1..NTargets :
              nSleeps[t] = IF nCalls[t] = 0 THEN 0 ELSE nCalls[t] - 1

\* C35 as stated: under the default retry policy (RetryPolicy() as
\* BasePlan holds it) a call that fails with a 5xx code is followed by a
\* backoff wait and then by another call on the same target, and a call
\* that fails with a 4xx code that retry_on does not list is followed by no
\* wait and no other call on that target.
C35_Original ==
    [][(/\ plan.max_attempts = BasePlan.max_attempts
        /\ plan.retry_on = BasePlan.retry_on)
          => /\ (pc = "attempt" /\ pc' # "returned" /\ lastObserved'.code \in 500..599)
                   => pc' = "sleep"
             /\ (pc = "sleep" /\ lastObserved.code \in 500..599)
                   => pc' = "attempt" /\ ti' = ti
             /\ (pc = "attempt" /\ pc' # "returned" /\ lastObserved'.code \in 400..499
                    /\ ~_status_code_matches(plan.retry_on, lastObserved'.code))
                   => pc' \in {"target", "raised"}]_vars

(***************************************************************************)
(* Properties of get_or_run and of the fingerprint, continued.             *)
(***************************************************************************)

\* C37 as stated: two calls of get_or_run with use_cache true, on a service
\* with a cache and with plans of the same fingerprint, never have the
\* runner running for both at the same time.
C37_Original ==
    \A c \in Callers : \A d \in Callers \ {c} :
        ~ /\ cache_kind # "none"
          /\ call[c].pc = "running" /\ call[c].use_cache
          /\ call[d].pc = "running" /\ call[d].use_cache
          /\ build_cache_key(call[c].plan) = build_cache_key(call[d].plan)

\* C38 as stated: two plans that are equal except for the contents of the
\* original_content attached to their message get the same fingerprint.
C38_Original ==
    (/\ keyA # NoKey
     /\ keyB # NoKey
     /\ Len(planA.contents) = 1
     /\ planA.contents[1].original_content # None
     /\ \E o \in {"o1", "o2"} :
           planB = [planA EXCEPT !.contents[1].original_content = o])
        => keyA = keyB

MatchPatterns ==
    { <<"5", ".", ".">>, <<"4", "0", "8">>, <<"4", "2", "9">>,
      <<"5", "x", "x">>, <<"4", "x", "x">>, <<"5", "0", "x">>, <<"x", "0", "x">>,
      <<"x", "x", "x">>, <<"x">>, <<"5", "x">>, <<"x", "x">>, <<"5", "x", "x", "x">> }

\* the status codes given, of one to four digits
MatchCodes == {0, 5, 9, 50, 59, 99, 400, 408, 429, 499, 500, 503, 508, 555, 599, 600, 5000, 5999}

\* base.py:23-27, _status_code_matches([pattern], status_code)
Match(pattern, status_code) ==
    /\ matched' = [pattern |-> pattern, status_code |-> status_code,
                   out |-> _status_code_matches(<<pattern>>, status_code),
                   called |-> TRUE]
    /\ UNCHANGED <<execVars, chatVars, cacheVars, facadeVars, loaded, configured,
                   disk, writer, read>>

SpecMatch ==
    Init /\ [][\E pattern \in MatchPatterns, status_code \in MatchCodes :
                  Match(pattern, status_code)]_vars

\* the code has as many digits as the pattern has characters and agrees
\* with it on every position that is not an x
AgreesOffWildcards(pattern, status_code) ==
    /\ Len(Str(status_code)) = Len(pattern)
    /\ \A i \in 1..Len(pattern) : pattern[i] # "x" => pattern[i] = Str(status_code)[i]

\* C32 as stated: a code matches a pattern exactly when it has as many
\* digits as the pattern has characters and agrees with it on every
\* position that is not an x; 5xx matches the codes 500..599 and no other.
C32_Original ==
    matched.called
        => /\ matched.out <=> AgreesOffWildcards(matched.pattern, matched.status_code)
           /\ matched.pattern = <<"5", "x", "x">>
                 => (matched.out <=> matched.status_code \in 500..599)

\* C32, amended: for a pattern made of decimal digits and x only, a code
\* matches exactly when it has as many digits as the pattern has
\* characters and agrees with it on every position that is not an x; 5xx
\* matches the codes 500..599 and no other.
C32_WildcardOnDigitPatterns ==
    (/\ matched.called
     /\ \A i \in 1..Len(matched.pattern) :
           matched.pattern[i] \in {"x"} \cup {DigitChar(d) : d \in 0..9})
        => /\ matched.out <=> AgreesOffWildcards(matched.pattern, matched.status_code)
           /\ matched.pattern = <<"5", "x", "x">>
                 => (matched.out <=> matched.status_code \in 500..599)

\* 5xx was matched against 599 and matches
C32_Witness ==
    /\ matched.called
    /\ matched.pattern = <<"5", "x", "x">>
    /\ matched.status_code = 599
    /\ matched.out

(***************************************************************************)
(* load_config (loader.py:140-152).  A configuration file is what          *)
(* resources.open_text and yaml.safe_load make of it: a mapping, held as   *)
(* a set of <<key, value>> pairs, another YAML value, or a failure.        *)
(***************************************************************************)
\* the logging configuration file: missing, not YAML, a YAML list, or a
\* mapping
LogFiles ==
    [kind : {"FileNotFoundError", "YAMLError", "list"}, pairs : {{}}]
      \cup [kind : {"mapping"},
            pairs : SUBSET {<<"file", "logging_defaults.yaml">>, <<"version", "1">>}]

\* the LLM configuration file: the same, a mapping with or without
\* globals, and globals with or without max_concurrency
LLMFiles ==
    [kind : {"FileNotFoundError", "YAMLError", "list"}, pairs : {{}}]
      \cup [kind : {"mapping"},
            pairs : {base \cup g :
                       base \in SUBSET {<<"file", "llm_config.yaml">>, <<"profiles", "p">>,
                                        <<"models", "m">>},
                       g \in {{}, {<<"globals", {}>>}}
                                \cup {{<<"globals", {<<"max_concurrency", n>>}>>} :
                                         n \in 1..MaxConcurrency}}]

\* loader.py:115-129, load_config_file: the mapping, or ConfigError
load_config_file(f) ==
    IF f.kind = "mapping" THEN [kind |-> "mapping", pairs |-> f.pairs]
    ELSE [kind |-> "raise", exc |-> "ConfigError"]

\* asyncio.Semaphore(value)
Semaphore(value) == [permits |-> value]

\* loader.py:132-137, setup_llm(llm_args): the mapping after the call, which
\* is the object it was given
setup_llm(given) ==
    LET globals == IF \E kv \in given : kv[1] = "globals"
                   THEN (CHOOSE kv \in given : kv[1] = "globals")[2]
                   ELSE {}
        mc == IF \E kv \in globals : kv[1] = "max_concurrency"
              THEN (CHOOSE kv \in globals : kv[1] = "max_concurrency")[2]
              ELSE 1
    IN  Update(given, {<<"semaphore", Semaphore(mc)>>,
                       <<"inflight_semaphore", Semaphore(InflightLimit(mc))>>})

\* loader.py:140-152, load_config() with the two files as they are read
load_config(log_file, llm_file) ==
    /\ loaded' =
         IF load_config_file(log_file).kind = "raise"
         THEN [kind |-> "ConfigError", calls |-> <<"logging_defaults.yaml">>,
               log_file |-> log_file.pairs, llm_file |-> llm_file.pairs,
               logger_args |-> {}, llm_args |-> {}]
         ELSE IF load_config_file(llm_file).kind = "raise"
         THEN [kind |-> "ConfigError",
               calls |-> <<"logging_defaults.yaml", "llm_config.yaml">>,
               log_file |-> log_file.pairs, llm_file |-> llm_file.pairs,
               logger_args |-> {}, llm_args |-> {}]
         ELSE [kind |-> "Config",
               calls |-> <<"logging_defaults.yaml", "llm_config.yaml">>,
               log_file |-> log_file.pairs, llm_file |-> llm_file.pairs,
               logger_args |-> load_config_file(log_file).pairs,
               llm_args |-> setup_llm(load_config_file(llm_file).pairs)]
    /\ UNCHANGED <<execVars, chatVars, cacheVars, facadeVars, matched, configured,
                   disk, writer, read>>

SpecLoad ==
    Init /\ [][\E log_file \in LogFiles, llm_file \in LLMFiles :
                  load_config(log_file, llm_file)]_vars

\* C33 as stated: load_config reads the logging file and then the LLM
\* file, and the Config it returns has as logger_args and as llm_args the
\* mappings read, with no key added and none removed.
C33_Original ==
    loaded.kind = "Config"
        => /\ loaded.calls = <<"logging_defaults.yaml", "llm_config.yaml">>
           /\ loaded.logger_args = loaded.log_file
           /\ loaded.llm_args = loaded.llm_file

(***************************************************************************)
(* chat() on a Config whose llm_args may lack the semaphores: a Config is  *)
(* a plain dataclass (loader.py:27-32) that any caller can build.          *)
(***************************************************************************)
\* base.py:113-116, chat() looks up the inflight semaphore when the
\* consumer asks for the first value
Start(g) ==
    /\ gpc[g] = "start"
    /\ gpc' = [gpc EXCEPT ![g] = IF "inflight_semaphore" \in configured
                                  THEN "next" ELSE "raised_605"]
    /\ UNCHANGED <<max_concurrency, semaphore, inflight_sem, taken, pending,
                   done, task, yielded, released>>
    /\ UNCHANGED <<execVars, cacheVars, facadeVars, miscVars>>

\* base.py:87-90 and 120-121, run_chat finds no semaphore and raises
\* LLMError 605 inside the unit; the done callback of the task releases
\* the inflight permit
Unconfigured(u) ==
    /\ task[u] = "created"
    /\ "semaphore" \notin configured
    /\ task' = [task EXCEPT ![u] = "failed"]
    /\ inflight_sem' = _release_inflight(inflight_sem)
    /\ released' = [released EXCEPT ![u] = @ + (_release_inflight(0))]
    /\ UNCHANGED <<max_concurrency, semaphore, taken, gpc, pending, done, yielded>>
    /\ UNCHANGED <<execVars, cacheVars, facadeVars, miscVars>>

\* chat() invocations not yet started, on a Config with any of the two
\* semaphores
InitConfigured ==
    /\ max_concurrency = 1
    /\ semaphore = max_concurrency
    /\ inflight_sem = InflightLimit(max_concurrency)
    /\ taken = [g \in Chats |-> 0]
    /\ gpc = [g \in Chats |-> "start"]
    /\ pending = [g \in Chats |-> {}]
    /\ done = [g \in Chats |-> {}]
    /\ task = [u \in Units |-> "none"]
    /\ yielded = [u \in Units |-> 0]
    /\ released = [u \in Units |-> 0]
    /\ InitRun
    /\ IdleCache
    /\ IdleFacade
    /\ configured \in SUBSET SemaphoreKeys
    /\ disk = [path |-> 0, tmp |-> 0, data |-> [i \in 1..MaxSets |-> << >>], sets |-> 0]
    /\ writer = [w \in Writers |-> [pc |-> "idle", ino |-> 0, pos |-> 0, msg |-> "none"]]
    /\ read = [called |-> FALSE, out |-> "None"]
    /\ matched = NoMatch
    /\ loaded = [kind |-> "none", calls |-> << >>, log_file |-> {}, llm_file |-> {},
                 logger_args |-> {}, llm_args |-> {}]

SpecConfigured ==
    InitConfigured
      /\ [][\/ NextStream
            \/ \E g \in Chats : Start(g)
            \/ \E u \in Units : Unconfigured(u)]_vars

\* C31 as stated: when one of the two semaphores is missing from the
\* configuration, a chat() that was started has raised the error 605 and
\* has yielded no failure value for a request.
C31_Original ==
    \A g \in Chats :
        (configured # SemaphoreKeys /\ gpc[g] # "start")
            => /\ gpc[g] = "raised_605"
               /\ \A u \in UnitsOf(g) : yielded[u] = 0

(***************************************************************************)
(* DiskCache.set and get of one key by processes that share the cache      *)
(* directory.  set is three system calls and more: open(path.tmp, "w"),    *)
(* the writes that flush what json.dump produced, and os.replace.  A file  *)
(* is numbered; disk.path and disk.tmp are the files the two names refer   *)
(* to (0: no such name) and disk.data what each file holds, in pieces.     *)
(***************************************************************************)
\* what json.dump writes for a message, in the pieces that reach the file
Pieces(m) == IF m = "A" THEN <<"A1", "A2">> ELSE <<"B1", "B2", "B3">>

\* write(2) of one piece at offset pos of a file; a write past the end
\* leaves a hole
RECURSIVE WriteAt(_, _, _)
WriteAt(data, pos, piece) ==
    IF pos < Len(data) THEN [data EXCEPT ![pos + 1] = piece]
    ELSE IF pos = Len(data) THEN Append(data, piece)
    ELSE WriteAt(Append(data, "hole"), pos, piece)

\* service.py:73 and 76, open(temp_path, "w") with temp_path = path.tmp, the
\* same name for every writer of the key: the file is created, or the file
\* of that name is truncated; o is what the operating system answers
SetOpen(w, m, o) ==
    /\ writer[w].pc = "idle"
    /\ disk.sets < MaxSets
    /\ IF o = "OSError"
       THEN /\ disk' = [disk EXCEPT !.sets = @ + 1]
            /\ UNCHANGED writer
       ELSE LET ino == IF disk.tmp # 0 THEN disk.tmp ELSE disk.sets + 1
            IN  /\ disk' = [disk EXCEPT !.sets = @ + 1, !.tmp = ino, !.data[ino] = << >>]
                /\ writer' = [writer EXCEPT ![w] = [pc |-> "writing", ino |-> ino,
                                                    pos |-> 0, msg |-> m]]
    /\ UNCHANGED <<matched, loaded, configured, read>>
    /\ UNCHANGED <<execVars, chatVars, cacheVars, facadeVars>>

\* service.py:76-77, one piece of json.dump reaches the file, or the write
\* raises OSError, which ends set (service.py:79-80); after the last piece
\* the file is closed
SetWrite(w, o) ==
    /\ writer[w].pc = "writing"
    /\ IF o = "OSError"
       THEN /\ writer' = [writer EXCEPT ![w].pc = "idle"]
            /\ UNCHANGED disk
       ELSE /\ disk' = [disk EXCEPT !.data[writer[w].ino] =
                            WriteAt(@, writer[w].pos, Pieces(writer[w].msg)[writer[w].pos + 1])]
            /\ writer' = [writer EXCEPT
                            ![w].pos = @ + 1,
                            ![w].pc = IF writer[w].pos + 1 = Len(Pieces(writer[w].msg))
                                      THEN "replace" ELSE "writing"]
    /\ UNCHANGED <<matched, loaded, configured, read>>
    /\ UNCHANGED <<execVars, chatVars, cacheVars, facadeVars>>

\* service.py:78-80, os.replace(temp_path, path): the name path.tmp is
\* moved to path, or there is no such name and the FileNotFoundError is
\* swallowed
SetReplace(w) ==
    /\ writer[w].pc = "replace"
    /\ writer' = [writer EXCEPT ![w].pc = "idle"]
    /\ disk' = IF disk.tmp = 0 THEN disk
               ELSE [disk EXCEPT !.path = disk.tmp, !.tmp = 0]
    /\ UNCHANGED <<matched, loaded, configured, read>>
    /\ UNCHANGED <<execVars, chatVars, cacheVars, facadeVars>>

\* service.py:55-69, get: no file, a file that json.load accepts, which is
\* the whole output of one json.dump, or a file it rejects
ReadEntry ==
    /\ read' = [called |-> TRUE,
                out |-> IF disk.path = 0 THEN "None"
                        ELSE IF disk.data[disk.path] = Pieces("A") THEN "A"
                        ELSE IF disk.data[disk.path] = Pieces("B") THEN "B"
                        ELSE "None"]
    /\ UNCHANGED <<matched, loaded, configured, disk, writer>>
    /\ UNCHANGED <<execVars, chatVars, cacheVars, facadeVars>>

SpecWriters ==
    Init /\ [][\/ \E w \in Writers, m \in {"A", "B"}, o \in WriteOutcomes : SetOpen(w, m, o)
               \/ \E w \in Writers, o \in WriteOutcomes : SetWrite(w, o)
               \/ \E w \in Writers : SetReplace(w)
               \/ ReadEntry]_vars

\* C36 as stated: whatever the interleaving of set and get on one key, with
\* concurrent writers, the file under the final path is never a partially
\* written entry, and get reads no entry or a complete one.
C36_Original ==
    /\ disk.path # 0 => disk.data[disk.path] \in {Pieces("A"), Pieces("B")}
    /\ read.called => read.out \in {"None", "A", "B"}

(***************************************************************************)
(* Progress of the dispatcher.                                             *)
(***************************************************************************)
\* C39: with limits of at least one, finite inputs, units that finish and
\* consumers that keep iterating, chat() never deadlocks: as long as some
\* chat() is not exhausted or some request taken from an input has not been
\* admitted (its unit created) and yielded, a step of a chat() or of a unit
\* is possible; and eventually every chat() is exhausted with every request
\* it took admitted and yielded.  This with several chat() invocations on
\* the same two semaphores, whatever the pace of each consumer.
C39_NoDeadlock ==
    /\ [](\/ ENABLED <<NextStream>>_vars
          \/ \A g \in Chats :
                /\ gpc[g] = "exhausted"
                /\ \A k \in 1..taken[g] :
                      task[<<g, k>>] # "none" /\ yielded[<<g, k>>] = 1)
    /\ <>(\A g \in Chats :
            /\ gpc[g] = "exhausted"
            /\ \A k \in 1..taken[g] :
                  task[<<g, k>>] # "none" /\ yielded[<<g, k>>] = 1)

\* a chat() waits for an inflight permit while every permit is held by a
\* unit of another chat(), none of them yielded yet
C39_Witness ==
    \E g \in Chats : \E h \in Chats \ {g} :
        /\ gpc[g] = "acquire"
        /\ inflight_sem = 0
        /\ pending[g] = {}
        /\ pending[h] # {}
        /\ \A u \in pending[h] : yielded[u] = 0

====
